---- MODULE Spec2Model ----
(***************************************************************************)
(* Terminal emulation core of codelane (crates/codelane-terminal).         *)
(*                                                                         *)
(* TerminalBuffer (term.rs) is modelled as a record and every method of    *)
(* it as an operator from records to records, so that write_byte is a pure *)
(* step function (state, byte) -> state'.  Terminal (the session: PTY,     *)
(* reader task, locks, event channel) and TerminalManager are modelled as  *)
(* processes over that record.                                             *)
(*                                                                         *)
(* Indices: the code's Vec indices are 0-based, TLA+ sequences are         *)
(* 1-based; cursor_x, cursor_y, scroll_top and scroll_bottom keep the      *)
(* code's 0-based values and cell (x, y) is cells[y + 1][x + 1].           *)
(*                                                                         *)
(* usize: a 64-bit unsigned word u is represented by its two's-complement  *)
(* reading, u for u < 2^63 and u - 2^64 otherwise, so wrapping arithmetic  *)
(* is integer arithmetic and an overflow of a checked operation is a       *)
(* change of sign.  The model only meets words within 2^31 of 0 or of      *)
(* 2^64.                                                                   *)
(***************************************************************************)
EXTENDS Integers, Sequences, FiniteSets, TLC

(***************************************************************************)
(* Bounds of the model.                                                    *)
(***************************************************************************)
\* Largest number of columns / rows of a buffer (TerminalSize is u16 x u16).
MaxCols == 2
MaxRows == 3

(***************************************************************************)
(* Bytes the code matches on.                                              *)
(***************************************************************************)
ESC == 27
BEL == 7
BS == 8
TAB == 9
LF == 10
CR == 13
\* osc_buffer.len() > 4096 aborts the OSC sequence
OSC_LIMIT == 4096

IsDigit(b) == b >= 48 /\ b <= 57

(***************************************************************************)
(* usize arithmetic (two's-complement reading, see the header).            *)
(***************************************************************************)
\* a < b as unsigned words
ULt(a, b) == IF (a < 0) = (b < 0) THEN a < b ELSE b < 0

ULe(a, b) == a = b \/ ULt(a, b)

\* usize::min / usize::max
UMin(a, b) == IF ULt(b, a) THEN b ELSE a

UMax(a, b) == IF ULt(a, b) THEN b ELSE a

\* usize::saturating_sub
saturating_sub(a, n) == IF ULt(a, n) THEN 0 ELSE a - n

\* a + n overflows the word (debug build: panic, release build: wraps)
AddOverflows(a, n) == (a < 0 \/ n < 0) /\ (a + n >= 0 \/ (a < 0 /\ n < 0))

\* a - n goes below zero
SubUnderflows(a, n) == ULt(a, n)

(***************************************************************************)
(* Vec<T> operations, 0-based indices as in the code.                      *)
(***************************************************************************)
\* Vec::remove(i): the caller checks i < len
VecRemove(v, i) ==
    [k \in 1..(Len(v) - 1) |-> IF k <= i THEN v[k] ELSE v[k + 1]]

\* Vec::insert(i, e): the caller checks i <= len
VecInsert(v, i, e) ==
    [k \in 1..(Len(v) + 1) |->
        IF k <= i THEN v[k] ELSE IF k = i + 1 THEN e ELSE v[k - 1]]

\* Vec::resize(n, e): truncate or pad with e
\* a resize that keeps the tail of the vector instead of its head
VecResize_tail(v, n, e) ==
    [k \in 1..n |-> IF Len(v) - n + k >= 1 THEN v[Len(v) - n + k] ELSE e]

VecResize(v, n, e) == [k \in 1..n |-> IF k <= Len(v) THEN v[k] ELSE e]

\* Vec::truncate(n)
VecTruncate(v, n) == IF Len(v) > n THEN SubSeq(v, 1, n) ELSE v

(***************************************************************************)
(* renderer.rs: colours, attributes.                                       *)
(***************************************************************************)
ColorDefault == [tag |-> "Default", v |-> <<>>]

ColorIndexed(i) == [tag |-> "Indexed", v |-> <<i>>]

ColorRgb(r, g, b) == [tag |-> "Rgb", v |-> <<r, g, b>>]

\* flags::* as sets of flag names (a u16 bitmask in the code)
AttrsDefault == [fg |-> ColorDefault, bg |-> ColorDefault, flags |-> {}]

\* a setter that flips the flag when asked to set it
SetFlag_toggle(attrs, f, on) ==
    [attrs EXCEPT !.flags = IF on /\ f \notin @ THEN @ \cup {f} ELSE @ \ {f}]

SetFlag(attrs, f, on) ==
    [attrs EXCEPT !.flags = IF on THEN @ \cup {f} ELSE @ \ {f}]

\* `as u8`
AsU8(n) == n % 256

(***************************************************************************)
(* term.rs: Cell, TerminalBuffer.                                          *)
(***************************************************************************)
CellDefault == [c |-> 32, attrs |-> AttrsDefault]

BlankRow(cols) == [x \in 1..cols |-> CellDefault]

\* TerminalBuffer::new.  fault and iters are instrumentation of the last
\* write_byte call: the checked arithmetic or index that failed in it, and
\* the number of iterations of its parameter- or grid-driven loops.
TerminalBuffer_new(cols, rows) ==
    [ cells          |-> [y \in 1..rows |-> BlankRow(cols)],
      cursor_x       |-> 0,
      cursor_y       |-> 0,
      cols           |-> cols,
      rows           |-> rows,
      current_attrs  |-> AttrsDefault,
      parser_state   |-> "Ground",
      csi_params     |-> <<>>,
      osc_buffer     |-> <<>>,
      scroll_top     |-> 0,
      scroll_bottom  |-> saturating_sub(rows, 1),
      saved_cursor   |-> <<>>,
      cursor_visible |-> TRUE,
      fault          |-> "none",
      iters          |-> 0 ]

\* records a failed check; the first one of a call is kept
Fault(buf, cond, what) ==
    IF cond /\ buf.fault = "none" THEN [buf EXCEPT !.fault = what] ELSE buf

\* cells[y][x] = cell, with the index checks of Vec indexing
SetCell(buf, x, y, cell) ==
    IF y < 0 \/ y >= Len(buf.cells) \/ x < 0 \/ x >= Len(buf.cells[y + 1])
    THEN Fault(buf, TRUE, "index")
    ELSE [buf EXCEPT !.cells[y + 1][x + 1] = cell]

\* cells.remove(i); cells.insert(j, blank row)
RemoveInsertRow(buf, i, j) ==
    IF i >= Len(buf.cells) \/ j > Len(buf.cells) - 1
    THEN Fault(buf, TRUE, "index")
    ELSE [buf EXCEPT !.cells = VecInsert(VecRemove(@, i), j, BlankRow(buf.cols))]

\* blanks cells x0..x1 of row y, one loop iteration each
RECURSIVE BlankRange(_, _, _, _)
BlankRange(buf, y, x0, x1) ==
    IF x0 > x1 THEN buf
    ELSE BlankRange([SetCell(buf, x0, y, CellDefault) EXCEPT !.iters = @ + 1],
                    y, x0 + 1, x1)

\* blanks rows y0..y1 entirely
RECURSIVE BlankRows(_, _, _)
BlankRows(buf, y0, y1) ==
    IF y0 > y1 THEN buf
    ELSE BlankRows(BlankRange(buf, y0, 0, buf.cols - 1), y0 + 1, y1)

\* a scroll that takes the whole grid for the region
scroll_up_whole(buf) ==
    IF buf.scroll_top < buf.scroll_bottom
    THEN RemoveInsertRow(buf, 0, buf.rows - 1)
    ELSE buf

scroll_up(buf) ==
    IF buf.scroll_top < buf.scroll_bottom
    THEN RemoveInsertRow(buf, buf.scroll_top, buf.scroll_bottom)
    ELSE buf

scroll_down(buf) ==
    IF buf.scroll_top < buf.scroll_bottom
    THEN RemoveInsertRow(buf, buf.scroll_bottom, buf.scroll_top)
    ELSE buf

newline(buf) ==
    IF buf.cursor_y >= buf.scroll_bottom
    THEN scroll_up(buf)
    ELSE [buf EXCEPT !.cursor_y = @ + 1]

index(buf) ==
    IF buf.cursor_y >= buf.scroll_bottom
    THEN scroll_up(buf)
    ELSE [buf EXCEPT !.cursor_y = @ + 1]

reverse_index(buf) ==
    IF buf.cursor_y <= buf.scroll_top
    THEN scroll_down(buf)
    ELSE [buf EXCEPT !.cursor_y = @ - 1]

\* a put_char that leaves the cursor where it is
put_char_in_place(buf, c) ==
    IF buf.cursor_y < buf.rows /\ buf.cursor_x < buf.cols
    THEN SetCell(buf, buf.cursor_x, buf.cursor_y,
                 [c |-> c, attrs |-> buf.current_attrs])
    ELSE buf

\* a put_char that gives the cell the default attributes
put_char_plain(buf, c) ==
    IF buf.cursor_y < buf.rows /\ buf.cursor_x < buf.cols
    THEN LET b1 == SetCell(buf, buf.cursor_x, buf.cursor_y,
                           [c |-> c, attrs |-> AttrsDefault])
             b2 == [b1 EXCEPT !.cursor_x = @ + 1]
         IN IF b2.cursor_x >= b2.cols
            THEN newline([b2 EXCEPT !.cursor_x = 0])
            ELSE b2
    ELSE buf

put_char(buf, c) ==
    IF buf.cursor_y < buf.rows /\ buf.cursor_x < buf.cols
    THEN LET b1 == SetCell(buf, buf.cursor_x, buf.cursor_y,
                           [c |-> c, attrs |-> buf.current_attrs])
             b2 == [b1 EXCEPT !.cursor_x = @ + 1]
         IN IF b2.cursor_x >= b2.cols
            THEN newline([b2 EXCEPT !.cursor_x = 0])
            ELSE b2
    ELSE buf

erase_line(buf, mode) ==
    IF buf.cursor_y >= buf.rows THEN buf
    ELSE CASE mode = 0 -> BlankRange(buf, buf.cursor_y, buf.cursor_x, buf.cols - 1)
           [] mode = 1 -> BlankRange(buf, buf.cursor_y, 0,
                                     UMin(buf.cursor_x, buf.cols - 1))
           [] mode = 2 -> BlankRange(buf, buf.cursor_y, 0, buf.cols - 1)
           [] OTHER -> buf

\* every cell of every row of cells, whatever cols and rows say
RECURSIVE ClearRows(_, _)
ClearRows(buf, y) ==
    IF y >= Len(buf.cells) THEN buf
    ELSE ClearRows(BlankRange(buf, y, 0, Len(buf.cells[y + 1]) - 1), y + 1)

clear_screen(buf) ==
    [ClearRows(buf, 0) EXCEPT !.cursor_x = 0, !.cursor_y = 0]

erase_display(buf, mode) ==
    CASE mode = 0 -> LET b1 == erase_line(buf, 0)
                     IN BlankRows(b1, b1.cursor_y + 1, b1.rows - 1)
      [] mode = 1 -> erase_line(BlankRows(buf, 0, buf.cursor_y - 1), 1)
      [] mode = 2 \/ mode = 3 -> clear_screen(buf)
      [] OTHER -> buf

\* a reset that leaves the scroll region as it is
reset_keeping_region(buf) ==
    [clear_screen(buf) EXCEPT
        !.current_attrs = AttrsDefault,
        !.saved_cursor = <<>>,
        !.cursor_visible = TRUE]

reset(buf) ==
    [clear_screen(buf) EXCEPT
        !.current_attrs = AttrsDefault,
        !.scroll_top = 0,
        !.scroll_bottom = saturating_sub(buf.rows, 1),
        !.saved_cursor = <<>>,
        !.cursor_visible = TRUE]


\* applies F k times
RECURSIVE Repeat(_, _, _)
Repeat(F(_), buf, k) == IF k <= 0 THEN buf ELSE Repeat(F, F(buf), k - 1)

\* `for _ in 0..n { body }`: n iterations are counted; the body is applied
\* min(n, cap) times, cap being a number of iterations after which the body
\* no longer changes the buffer (every row or cell in its reach is blank)
ForN(F(_), buf, n, cap) == [Repeat(F, buf, UMin(n, cap)) EXCEPT !.iters = n]

insert_lines_body(buf) ==
    IF buf.cursor_y <= buf.scroll_bottom
    THEN RemoveInsertRow(buf, buf.scroll_bottom, buf.cursor_y)
    ELSE buf

insert_lines(buf, n) == ForN(insert_lines_body, buf, n, buf.rows)

delete_lines_body(buf) ==
    IF buf.cursor_y <= buf.scroll_bottom
    THEN RemoveInsertRow(buf, buf.cursor_y, buf.scroll_bottom)
    ELSE buf

delete_lines(buf, n) == ForN(delete_lines_body, buf, n, buf.rows)

delete_chars_body(buf) ==
    LET row == buf.cells[buf.cursor_y + 1]
    IN IF buf.cursor_x < Len(row)
       THEN [buf EXCEPT !.cells[buf.cursor_y + 1] =
                Append(VecRemove(row, buf.cursor_x), CellDefault)]
       ELSE buf

delete_chars(buf, n) ==
    IF buf.cursor_y >= buf.rows THEN buf
    ELSE IF buf.cursor_y >= Len(buf.cells) THEN Fault(buf, TRUE, "index")
    ELSE ForN(delete_chars_body, buf, n, buf.cols)

\* insert_chars_body without row.truncate(self.cols)
insert_chars_body_untruncated(buf) ==
    LET row == buf.cells[buf.cursor_y + 1]
    IN IF buf.cursor_x < buf.cols
       THEN [buf EXCEPT !.cells[buf.cursor_y + 1] =
                VecInsert(row, buf.cursor_x, CellDefault)]
       ELSE buf

insert_chars_body(buf) ==
    LET row == buf.cells[buf.cursor_y + 1]
    IN IF buf.cursor_x < buf.cols
       THEN IF buf.cursor_x > Len(row) THEN Fault(buf, TRUE, "index")
            ELSE [buf EXCEPT !.cells[buf.cursor_y + 1] =
                    VecTruncate(VecInsert(row, buf.cursor_x, CellDefault), buf.cols)]
       ELSE buf

insert_chars(buf, n) ==
    IF buf.cursor_y >= buf.rows THEN buf
    ELSE IF buf.cursor_y >= Len(buf.cells) THEN Fault(buf, TRUE, "index")
    ELSE ForN(insert_chars_body, buf, n, buf.cols)

\* ECH: for i in 0..n { if cursor_x + i < cols && cursor_y < rows { blank } };
\* only i < cols - cursor_x reaches a cell
erase_chars(buf, n) ==
    LET k == UMin(n, buf.cols - buf.cursor_x)
        b1 == IF buf.cursor_y < buf.rows
              THEN BlankRange(buf, buf.cursor_y, buf.cursor_x, buf.cursor_x + k - 1)
              ELSE buf
    IN [b1 EXCEPT !.iters = n]

scroll_up_n(buf, n) == ForN(scroll_up, buf, n, buf.rows)

scroll_down_n(buf, n) == ForN(scroll_down, buf, n, buf.rows)

(***************************************************************************)
(* Parameter parsing.                                                      *)
(***************************************************************************)
\* str::split(';'): the segments between the separators, empty ones kept
RECURSIVE SplitSemi(_, _, _)
SplitSemi(bytes, k, cur) ==
    IF k > Len(bytes) THEN <<cur>>
    ELSE IF bytes[k] = 59 THEN <<cur>> \o SplitSemi(bytes, k + 1, <<>>)
    ELSE SplitSemi(bytes, k + 1, Append(cur, bytes[k]))

RECURSIVE Horner(_, _)
Horner(digits, acc) ==
    IF digits = <<>> THEN acc
    ELSE Horner(Tail(digits), acc * 10 + (Head(digits) - 48))

RECURSIVE StripZeros(_)
StripZeros(digits) ==
    IF digits # <<>> /\ Head(digits) = 48 THEN StripZeros(Tail(digits)) ELSE digits

\* the leading 11 digits of usize::MAX = 18446744073709551615
UsizeMaxHead == <<49, 56, 52, 52, 54, 55, 52, 52, 48, 55, 51>>
\* its last 9 digits, 709551615, plus one
UsizeMaxTailPlus1 == 709551616
\* the middle of the range, for the words the representation does not hold
UsizeMid == 1000000000

\* str::parse::<usize>().unwrap_or(0): a non-empty run of digits that fits
\* the word, anything else (empty, a ':' inside, too large) gives 0
ParseUsize(seg) ==
    IF seg = <<>> \/ \E k \in 1..Len(seg) : ~IsDigit(seg[k]) THEN 0
    ELSE LET s == StripZeros(seg)
         IN IF Len(s) <= 9 THEN Horner(s, 0)
            ELSE IF Len(s) > 20 THEN 0
            ELSE IF Len(s) = 20 /\ SubSeq(s, 1, 11) = UsizeMaxHead
                 THEN IF Horner(SubSeq(s, 12, 20), 0) < UsizeMaxTailPlus1
                      THEN Horner(SubSeq(s, 12, 20), 0) - UsizeMaxTailPlus1
                      ELSE 0
            ELSE UsizeMid

parse_params(buf) ==
    IF buf.csi_params = <<>> THEN <<>>
    ELSE LET segs == SplitSemi(buf.csi_params, 1, <<>>)
         IN [k \in 1..Len(segs) |-> ParseUsize(segs[k])]

\* params.first().copied().unwrap_or(d) / params.get(i).copied().unwrap_or(d)
ParamOr(params, i, d) == IF Len(params) > i THEN params[i + 1] ELSE d

(***************************************************************************)
(* SGR.                                                                    *)
(***************************************************************************)
\* a parse_extended_color that leaves i on the selector when it succeeds
parse_extended_color_peeking(params, i) ==
    IF i + 2 < Len(params) /\ params[i + 2] = 5
    THEN [some |-> TRUE, color |-> ColorIndexed(AsU8(params[i + 3])), i |-> i]
    ELSE IF i + 4 < Len(params) /\ params[i + 2] = 2
    THEN [some |-> TRUE,
          color |-> ColorRgb(AsU8(params[i + 3]), AsU8(params[i + 4]),
                             AsU8(params[i + 5])),
          i |-> i]
    ELSE [some |-> FALSE, color |-> ColorDefault, i |-> i]

\* parse_extended_color: [some, color, i]; i is advanced only on success
parse_extended_color(params, i) ==
    IF i + 1 >= Len(params) THEN [some |-> FALSE, color |-> ColorDefault, i |-> i]
    ELSE CASE params[i + 2] = 5 ->
                IF i + 2 < Len(params)
                THEN [some |-> TRUE, color |-> ColorIndexed(AsU8(params[i + 3])),
                      i |-> i + 2]
                ELSE [some |-> FALSE, color |-> ColorDefault, i |-> i]
           [] params[i + 2] = 2 ->
                IF i + 4 < Len(params)
                THEN [some |-> TRUE,
                      color |-> ColorRgb(AsU8(params[i + 3]), AsU8(params[i + 4]),
                                         AsU8(params[i + 5])),
                      i |-> i + 4]
                ELSE [some |-> FALSE, color |-> ColorDefault, i |-> i]
           [] OTHER -> [some |-> FALSE, color |-> ColorDefault, i |-> i]

\* one arm of the match in process_sgr, for a code that is not 38 or 48
sgr_code(attrs, p) ==
    CASE p = 0 -> AttrsDefault
      [] p = 1 -> SetFlag(attrs, "bold", TRUE)
      [] p = 2 -> SetFlag(attrs, "dim", TRUE)
      [] p = 3 -> SetFlag(attrs, "italic", TRUE)
      [] p = 4 -> SetFlag(attrs, "underline", TRUE)
      [] p = 5 -> SetFlag(attrs, "blink", TRUE)
      [] p = 7 -> SetFlag(attrs, "inverse", TRUE)
      [] p = 8 -> SetFlag(attrs, "hidden", TRUE)
      [] p = 9 -> SetFlag(attrs, "strikethrough", TRUE)
      [] p = 21 -> SetFlag(attrs, "bold", FALSE)
      [] p = 22 -> SetFlag(SetFlag(attrs, "bold", FALSE), "dim", FALSE)
      [] p = 23 -> SetFlag(attrs, "italic", FALSE)
      [] p = 24 -> SetFlag(attrs, "underline", FALSE)
      [] p = 25 -> SetFlag(attrs, "blink", FALSE)
      [] p = 27 -> SetFlag(attrs, "inverse", FALSE)
      [] p = 28 -> SetFlag(attrs, "hidden", FALSE)
      [] p = 29 -> SetFlag(attrs, "strikethrough", FALSE)
      [] p >= 30 /\ p <= 37 -> [attrs EXCEPT !.fg = ColorIndexed(AsU8(p - 30))]
      [] p = 39 -> [attrs EXCEPT !.fg = ColorDefault]
      [] p >= 40 /\ p <= 47 -> [attrs EXCEPT !.bg = ColorIndexed(AsU8(p - 40))]
      [] p = 49 -> [attrs EXCEPT !.bg = ColorDefault]
      [] p >= 90 /\ p <= 97 -> [attrs EXCEPT !.fg = ColorIndexed(AsU8(p - 90 + 8))]
      [] p >= 100 /\ p <= 107 -> [attrs EXCEPT !.bg = ColorIndexed(AsU8(p - 100 + 8))]
      [] OTHER -> attrs

\* the while loop of process_sgr, from index i
RECURSIVE sgr_loop(_, _, _)
sgr_loop(attrs, params, i) ==
    IF i >= Len(params) THEN attrs
    ELSE LET p == params[i + 1]
         IN IF p = 38 \/ p = 48
            THEN LET ext == parse_extended_color(params, i)
                     a1 == IF ~ext.some THEN attrs
                           ELSE IF p = 38 THEN [attrs EXCEPT !.fg = ext.color]
                           ELSE [attrs EXCEPT !.bg = ext.color]
                 IN sgr_loop(a1, params, ext.i + 1)
            ELSE sgr_loop(sgr_code(attrs, p), params, i + 1)

process_sgr(buf, params) ==
    IF params = <<>> THEN [buf EXCEPT !.current_attrs = AttrsDefault]
    ELSE [buf EXCEPT !.current_attrs = sgr_loop(@, params, 0)]


(***************************************************************************)
(* CSI dispatch.                                                           *)
(***************************************************************************)
\* params.first().copied().unwrap_or(1).max(1)
Count(params) == UMax(ParamOr(params, 0, 1), 1)

\* DECSTBM, in the order of its assignments
set_scroll_region(buf, params) ==
    LET top == Count(params)
        bottom == ParamOr(params, 1, buf.rows)
        b1 == [buf EXCEPT !.scroll_top = UMin(top - 1, buf.rows - 1)]
        b2 == Fault(b1, SubUnderflows(bottom, 1), "sub_overflow")
    IN [b2 EXCEPT !.scroll_bottom = UMin(bottom - 1, buf.rows - 1),
                  !.cursor_x = 0,
                  !.cursor_y = 0]

\* AddClamp without the .min(last)
AddClamp_unclamped(cur, n, last) == cur + n

\* (cursor + n).min(last): the addition is checked in a debug build
AddClamp(cur, n, last) == UMin(cur + n, last)

execute_csi(buf, final_byte) ==
    LET params == parse_params(buf)
        n == Count(params)
    IN CASE final_byte = 65 ->   \* A
              [buf EXCEPT !.cursor_y = saturating_sub(@, n)]
         [] final_byte = 66 ->   \* B
              [Fault(buf, AddOverflows(buf.cursor_y, n), "add_overflow")
                EXCEPT !.cursor_y = AddClamp(@, n, buf.rows - 1)]
         [] final_byte = 67 ->   \* C
              [Fault(buf, AddOverflows(buf.cursor_x, n), "add_overflow")
                EXCEPT !.cursor_x = AddClamp(@, n, buf.cols - 1)]
         [] final_byte = 68 ->   \* D
              [buf EXCEPT !.cursor_x = saturating_sub(@, n)]
         [] final_byte = 69 ->   \* E
              [Fault(buf, AddOverflows(buf.cursor_y, n), "add_overflow")
                EXCEPT !.cursor_x = 0,
                       !.cursor_y = AddClamp(@, n, buf.rows - 1)]
         [] final_byte = 70 ->   \* F
              [buf EXCEPT !.cursor_x = 0,
                          !.cursor_y = saturating_sub(@, n)]
         [] final_byte = 71 ->   \* G
              [buf EXCEPT !.cursor_x = UMin(n - 1, buf.cols - 1)]
         [] final_byte = 72 \/ final_byte = 102 ->   \* H, f
              LET row == Count(params)
                  col == UMax(ParamOr(params, 1, 1), 1)
              IN [buf EXCEPT !.cursor_y = UMin(row - 1, buf.rows - 1),
                             !.cursor_x = UMin(col - 1, buf.cols - 1)]
         [] final_byte = 74 ->   \* J
              erase_display(buf, ParamOr(params, 0, 0))
         [] final_byte = 75 ->   \* K
              erase_line(buf, ParamOr(params, 0, 0))
         [] final_byte = 76 -> insert_lines(buf, n)    \* L
         [] final_byte = 77 -> delete_lines(buf, n)    \* M
         [] final_byte = 80 -> delete_chars(buf, n)    \* P
         [] final_byte = 64 -> insert_chars(buf, n)    \* @
         [] final_byte = 109 -> process_sgr(buf, params)   \* m
         [] final_byte = 114 -> set_scroll_region(buf, params)   \* r
         [] final_byte = 100 ->  \* d
              [buf EXCEPT !.cursor_y = UMin(n - 1, buf.rows - 1)]
         [] final_byte = 88 -> erase_chars(buf, n)     \* X
         [] final_byte = 83 -> scroll_up_n(buf, n)     \* S
         [] final_byte = 84 -> scroll_down_n(buf, n)   \* T
         [] OTHER -> buf

(***************************************************************************)
(* The parser: one operator per parser state.                              *)
(***************************************************************************)
process_ground(buf, byte) ==
    CASE byte = ESC -> [buf EXCEPT !.parser_state = "Escape"]
      [] byte = LF -> newline(buf)
      [] byte = CR -> [buf EXCEPT !.cursor_x = 0]
      [] byte = BS -> [buf EXCEPT !.cursor_x = saturating_sub(@, 1)]
      [] byte = TAB ->
            LET x == ((buf.cursor_x \div 8) + 1) * 8
            IN [buf EXCEPT !.cursor_x = IF x >= buf.cols THEN buf.cols - 1 ELSE x]
      [] byte = BEL -> buf
      [] byte >= 32 -> put_char(buf, byte)
      [] OTHER -> buf

restore_cursor(buf) ==
    IF buf.saved_cursor # <<>>
    THEN [buf EXCEPT
            !.cursor_x = UMin(buf.saved_cursor[1], saturating_sub(buf.cols, 1)),
            !.cursor_y = UMin(buf.saved_cursor[2], saturating_sub(buf.rows, 1))]
    ELSE buf

process_escape(buf, byte) ==
    CASE byte = 91 ->    \* [
            [buf EXCEPT !.parser_state = "Csi", !.csi_params = <<>>]
      [] byte = 93 ->    \* ]
            [buf EXCEPT !.parser_state = "Osc", !.osc_buffer = <<>>]
      [] byte = 99 ->    \* c
            [reset(buf) EXCEPT !.parser_state = "Ground"]
      [] byte = 55 ->    \* 7
            [buf EXCEPT !.saved_cursor = <<buf.cursor_x, buf.cursor_y>>,
                        !.parser_state = "Ground"]
      [] byte = 56 ->    \* 8
            [restore_cursor(buf) EXCEPT !.parser_state = "Ground"]
      [] byte = 68 ->    \* D
            [index(buf) EXCEPT !.parser_state = "Ground"]
      [] byte = 69 ->    \* E
            [index([buf EXCEPT !.cursor_x = 0]) EXCEPT !.parser_state = "Ground"]
      [] byte = 77 ->    \* M
            [reverse_index(buf) EXCEPT !.parser_state = "Ground"]
      [] OTHER -> [buf EXCEPT !.parser_state = "Ground"]

process_csi(buf, byte) ==
    CASE byte = 63 ->    \* ?
            [buf EXCEPT !.parser_state = "CsiPrivate"]
      [] IsDigit(byte) \/ byte = 59 \/ byte = 58 ->
            [buf EXCEPT !.csi_params = Append(@, byte)]
      [] byte >= 64 /\ byte <= 126 ->
            [execute_csi(buf, byte) EXCEPT !.parser_state = "Ground"]
      [] OTHER -> [buf EXCEPT !.parser_state = "Ground"]

\* the `for param in params` loop of DECSET / DECRST
RECURSIVE private_modes(_, _, _, _)
private_modes(buf, params, k, byte) ==
    IF k > Len(params) THEN buf
    ELSE LET b1 == CASE params[k] = 25 ->
                          [buf EXCEPT !.cursor_visible = (byte = 104)]
                     [] params[k] = 1049 ->
                          IF byte = 104 THEN clear_screen(buf) ELSE buf
                     [] OTHER -> buf
         IN private_modes(b1, params, k + 1, byte)

process_csi_private(buf, byte) ==
    CASE IsDigit(byte) \/ byte = 59 ->
            [buf EXCEPT !.csi_params = Append(@, byte)]
      [] byte = 104 \/ byte = 108 ->    \* h, l
            [private_modes(buf, parse_params(buf), 1, byte)
                EXCEPT !.parser_state = "Ground"]
      [] OTHER -> [buf EXCEPT !.parser_state = "Ground"]

\* an OSC state without the size limit
process_osc_unlimited(buf, byte) ==
    IF byte \in {BEL, ESC} THEN [buf EXCEPT !.parser_state = "Ground"]
    ELSE [buf EXCEPT !.osc_buffer = Append(@, byte)]

process_osc(buf, byte) ==
    CASE byte = BEL -> [buf EXCEPT !.parser_state = "Ground"]
      [] byte = ESC -> [buf EXCEPT !.parser_state = "Ground"]
      [] OTHER ->
            LET b1 == [buf EXCEPT !.osc_buffer = Append(@, byte)]
            IN IF Len(b1.osc_buffer) > OSC_LIMIT
               THEN [b1 EXCEPT !.parser_state = "Ground"]
               ELSE b1

\* the dispatch of write_byte, on a buffer whose instrumentation is cleared
dispatch(buf, byte) ==
    CASE buf.parser_state = "Ground" -> process_ground(buf, byte)
      [] buf.parser_state = "Escape" -> process_escape(buf, byte)
      [] buf.parser_state = "Csi" -> process_csi(buf, byte)
      [] buf.parser_state = "CsiPrivate" -> process_csi_private(buf, byte)
      [] buf.parser_state = "Osc" -> process_osc(buf, byte)

\* write_byte as a release build runs it: unchecked arithmetic wraps
write_byte(buf, byte) ==
    dispatch([buf EXCEPT !.fault = "none", !.iters = 0], byte)

\* write_byte as a debug build (overflow-checks) leaves the buffer when the
\* call panics: the assignments made before the failing operation stay, the
\* rest of the handler (parser_state = Ground included) is not run
write_byte_panicked(buf, byte) ==
    LET done == write_byte(buf, byte)
        params == parse_params(buf)
        part == CASE byte = 69 -> [buf EXCEPT !.cursor_x = 0]
                  [] byte = 114 ->
                        [buf EXCEPT !.scroll_top =
                            UMin(Count(params) - 1, buf.rows - 1)]
                  [] OTHER -> buf
    IN [part EXCEPT !.fault = done.fault, !.iters = 0]

\* write_byte for each byte of a slice, in order
RECURSIVE FeedAll(_, _)
FeedAll(buf, bytes) ==
    IF bytes = <<>> THEN buf
    ELSE FeedAll(write_byte(buf, Head(bytes)), Tail(bytes))

\* the buffer mutation of Terminal::resize, under the buffer lock (the
\* instrumentation of the last write_byte call is cleared)
\* a resize that clamps the bottom margin instead of resetting it
resize_buffer_clamping(buf, new_cols, new_rows) ==
    [buf EXCEPT
       !.cells = [y \in 1..new_rows |->
                    VecResize(VecResize(buf.cells, new_rows, BlankRow(new_cols))[y],
                              new_cols, CellDefault)],
       !.cols = new_cols,
       !.rows = new_rows,
       !.scroll_bottom = UMin(@, saturating_sub(new_rows, 1)),
       !.cursor_x = UMin(@, saturating_sub(new_cols, 1)),
       !.cursor_y = UMin(@, saturating_sub(new_rows, 1)),
       !.fault = "none",
       !.iters = 0]

resize_buffer(buf, new_cols, new_rows) ==
    LET grown == VecResize(buf.cells, new_rows, BlankRow(new_cols))
        cells == [y \in 1..new_rows |-> VecResize(grown[y], new_cols, CellDefault)]
    IN [buf EXCEPT
          !.cells = cells,
          !.cols = new_cols,
          !.rows = new_rows,
          !.scroll_bottom = saturating_sub(new_rows, 1),
          !.cursor_x = UMin(@, saturating_sub(new_cols, 1)),
          !.cursor_y = UMin(@, saturating_sub(new_rows, 1)),
          !.fault = "none",
          !.iters = 0]


(***************************************************************************)
(* renderer.rs: colour resolution, and TerminalBuffer::to_render_state.    *)
(* A CSS string is the sequence of its characters.                         *)
(***************************************************************************)
HexDigits == <<"0", "1", "2", "3", "4", "5", "6", "7",
               "8", "9", "a", "b", "c", "d", "e", "f">>

\* format!("{:02x}", n) for a u8
Hex2(n) == <<HexDigits[(n \div 16) + 1], HexDigits[(n % 16) + 1]>>

\* format!("#{:02x}{:02x}{:02x}", r, g, b)
CssRgb(r, g, b) == <<"#">> \o Hex2(r) \o Hex2(g) \o Hex2(b)

ANSI_COLORS_16 ==
    << CssRgb(0, 0, 0),       CssRgb(205, 0, 0),     CssRgb(0, 205, 0),
       CssRgb(205, 205, 0),   CssRgb(0, 0, 238),     CssRgb(205, 0, 205),
       CssRgb(0, 205, 205),   CssRgb(229, 229, 229), CssRgb(127, 127, 127),
       CssRgb(255, 0, 0),     CssRgb(0, 255, 0),     CssRgb(255, 255, 0),
       CssRgb(92, 92, 255),   CssRgb(255, 0, 255),   CssRgb(0, 255, 255),
       CssRgb(255, 255, 255) >>

\* "#d4d4d4"
DEFAULT_FG == CssRgb(212, 212, 212)

DEFAULT_BG == <<"t", "r", "a", "n", "s", "p", "a", "r", "e", "n", "t">>

\* a cube whose levels are spread evenly over 0..255
CubeLevel_linear(l) == l * 51

\* one component of the colour cube
CubeLevel(l) == IF l = 0 THEN 0 ELSE 55 + l * 40

index_to_css(idx) ==
    CASE idx <= 15 -> ANSI_COLORS_16[idx + 1]
      [] idx >= 16 /\ idx <= 231 ->
            LET i == idx - 16
            IN CssRgb(CubeLevel((i \div 36) % 6), CubeLevel((i \div 6) % 6),
                      CubeLevel(i % 6))
      [] OTHER ->
            LET gray == 8 + (idx - 232) * 10
            IN CssRgb(gray, gray, gray)

ColorCss(color, default) ==
    CASE color.tag = "Default" -> default
      [] color.tag = "Indexed" -> index_to_css(color.v[1])
      [] color.tag = "Rgb" -> CssRgb(color.v[1], color.v[2], color.v[3])

to_fg_css(color) == ColorCss(color, DEFAULT_FG)

to_bg_css(color) == ColorCss(color, DEFAULT_BG)

\* the RenderCell of cell (x, y)
RenderCell(cell, x, y) ==
    [ x |-> x, y |-> y, c |-> cell.c,
      fg |-> to_fg_css(cell.attrs.fg),
      bg |-> to_bg_css(cell.attrs.bg),
      flags |-> cell.attrs.flags ]

\* the inner loop of to_render_state over one row: the cells with x < cols
RenderRow(buf, y) ==
    LET row == buf.cells[y + 1]
        n == IF Len(row) < buf.cols THEN Len(row) ELSE buf.cols
    IN [k \in 1..n |-> RenderCell(row[k], k - 1, y)]

CursorState(buf) ==
    [ x |-> buf.cursor_x, y |-> buf.cursor_y, shape |-> "block",
      visible |-> buf.cursor_visible ]

RECURSIVE RenderRows(_, _)
RenderRows(buf, y) ==
    IF y >= Len(buf.cells) THEN <<>>
    ELSE RenderRow(buf, y) \o RenderRows(buf, y + 1)

to_render_state(buf, size) ==
    [ cells |-> RenderRows(buf, 0), cursor |-> CursorState(buf),
      size |-> size, selections |-> <<>> ]

(***************************************************************************)
(* State.                                                                  *)
(***************************************************************************)
VARIABLES
    buffer,       \* the TerminalBuffer behind Terminal.buffer
    panicked,     \* a write_byte call has panicked (the calling thread unwound)
    profile,      \* the kind of byte stream the child process emits (fixed)
    \* Terminal and TerminalManager, one session
    term,         \* "none", "failed", "registered", "removed", "dropped"
    pty_owners,   \* holders of a strong reference to Arc<Mutex<PtyHandle>>
    size,         \* Terminal.size, <<cols, rows>>
    pty_size,     \* the size the PTY was opened with or last resized to
    buffer_lock,  \* holder of the buffer's Mutex: "none", "reader", "resize", "snapshot"
    events,       \* the events sent on the unbounded channel, in order
    \* the reader task of Terminal::spawn
    reader_pc,    \* "idle", "clone_reader", "read", "lock", "apply", "redraw",
                  \* "exited_eof", "exited_error", "exited_clone", "exited_panic"
    reader_buf,   \* buf[..n] of the last read
    reader_i,     \* bytes of reader_buf applied so far
    \* a caller inside Terminal::resize
    resize_pc,    \* "idle", "pty", "lock", "mutate"
    \* a caller inside Terminal::get_render_state
    snap_pc,      \* "idle", "walk", "returned"
    snap_y,       \* the row to_render_state walks next
    snap_size,    \* self.size as passed to to_render_state
    snap_cells,   \* the RenderCells pushed so far
    snapshot,     \* the TerminalRenderState the call has returned
    \* history, for the statements of the claims
    snap_base,    \* the buffer as it was when the snapshot took the lock
    delivered,    \* the bytes the PTY has delivered to read(), in order
    applied,      \* how many of them write_byte has processed
    shadow,       \* the parser run byte by byte over delivered[1..applied],
                  \* with every resize applied where it took the buffer lock
    removed_at,   \* where the reader task was when remove returned, for as
                  \* long as remove is the last step taken
    \* TerminalManager with several sessions
    sessions,     \* what each Terminal ever spawned shares with its reader
                  \* task, by id (ids are 1, 2, ... in order of creation)
    terminals,    \* the keys of TerminalManager.terminals
    removed_ids   \* the ids that have been passed to remove

bufVars == <<buffer, panicked, profile>>

sessVars == <<term, pty_owners, size, pty_size, buffer_lock, events, reader_pc,
              reader_buf, reader_i, resize_pc, snap_pc, snap_y, snap_size,
              snap_cells, snapshot, snap_base, delivered, applied, shadow,
              removed_at, sessions, terminals, removed_ids>>

mgrVars == <<sessions, terminals, removed_ids>>

vars == <<buffer, panicked, profile, term, pty_owners, size, pty_size,
          buffer_lock, events, reader_pc, reader_buf, reader_i, resize_pc,
          snap_pc, snap_y, snap_size, snap_cells, snapshot, snap_base, delivered,
          applied, shadow,
          removed_at, sessions, terminals, removed_ids>>

(***************************************************************************)
(* The bytes fed to the parser.  The parser treats all printable bytes     *)
(* alike in Ground, all unmatched bytes alike in Escape and in CSI, and    *)
(* reads a parameter only through parse_params, so a feed offers one byte  *)
(* of each kind per parser state, and parameter bytes that keep csi_params *)
(* a prefix of one of its parameter strings.  A profile is one family of   *)
(* byte streams: the buffer sizes it runs on and the bytes it offers.      *)
(***************************************************************************)
\* "", "0", "2", "3;1", "1;0", "99"
GridParamStrings ==
    { <<>>, <<48>>, <<50>>, <<51, 59, 49>>, <<49, 59, 48>>, <<57, 57>> }

\* "25", "1049"
ModeParamStrings == { <<50, 53>>, <<49, 48, 52, 57>> }

\* "", "0", "1", "7;31", "22;39", "38;5;200", "48;2;1;2;300", "38;5", "1;0"
SgrParamStrings ==
    { <<>>, <<48>>, <<49>>, <<55, 59, 51, 49>>, <<50, 50, 59, 51, 57>>,
      <<51, 56, 59, 53, 59, 50, 48, 48>>,
      <<52, 56, 59, 50, 59, 49, 59, 50, 59, 51, 48, 48>>,
      <<51, 56, 59, 53>>, <<49, 59, 48>> }

\* the number of payload bytes fed to one OSC sequence
MaxOscFeed == 1

\* the width of the one-row grid of the profile "osc"
OscCols == 2

Profiles ==
    [ grid |->
        [ cols    |-> 1..MaxCols,
          rows    |-> 1..MaxRows,
          ground  |-> {ESC, LF, CR, BS, TAB, 120},
          \* [ D E M c x
          escape  |-> {91, 68, 69, 77, 99, 120},
          \* A B C D E F G H f J K L M P @ r d X S T z, and an invalid byte
          csi     |-> {65, 66, 67, 68, 69, 70, 71, 72, 102, 74, 75, 76, 77, 80,
                       64, 114, 100, 88, 83, 84, 122, 32},
          params  |-> GridParamStrings,
          private |-> {},
          osc     |-> {},
          osc_max |-> 0,
          after_osc |-> {},
          whole   |-> FALSE ],
      modes |->
        [ cols    |-> 1..MaxCols,
          rows    |-> 1..(MaxRows - 1),
          ground  |-> {ESC, LF, BEL, 0, 120},
          \* [ ] 7 8
          escape  |-> {91, 93, 55, 56},
          \* ? H z
          csi     |-> {63, 72, 122},
          params  |-> { <<>>, <<50, 59, 50>> } \cup ModeParamStrings,
          \* h l x
          private |-> {104, 108, 120},
          osc     |-> {BEL, ESC, 120},
          osc_max |-> MaxOscFeed,
          after_osc |-> {},
          whole   |-> FALSE ],
      \* an OSC sequence that never ends: 'x' without end after ESC ], then
      \* 'y' or ESC
      osc |->
        [ cols    |-> {OscCols},
          rows    |-> {1},
          ground  |-> {ESC},
          escape  |-> {93},
          csi     |-> {},
          params  |-> {},
          private |-> {},
          osc     |-> {BEL, 120},
          osc_max |-> OSC_LIMIT + 1,
          after_osc |-> {121},
          whole   |-> FALSE ],
      \* SGR sequences, one after the other
      sgr |->
        [ cols    |-> {1},
          rows    |-> {1},
          ground  |-> {ESC},
          escape  |-> {91},
          \* m
          csi     |-> {109},
          params  |-> SgrParamStrings,
          private |-> {},
          osc     |-> {},
          osc_max |-> 0,
          after_osc |-> {},
          \* the final byte comes after a whole parameter string only
          whole   |-> TRUE ] ]

ProfileNames == {"grid", "modes", "osc", "sgr"}

IsPrefixOf(p, s) == Len(p) <= Len(s) /\ SubSeq(s, 1, Len(p)) = p

\* the parameter bytes that keep csi_params a prefix of one of the strings
ParamFeed(buf, strings) ==
    { b \in (48..57) \cup {58, 59} :
        \E s \in strings : IsPrefixOf(Append(buf.csi_params, b), s) }

Feed(p, buf) ==
    CASE buf.parser_state = "Ground" ->
            p.ground \cup (IF buf.osc_buffer # <<>> THEN p.after_osc ELSE {})
      [] buf.parser_state = "Escape" -> p.escape
      [] buf.parser_state = "Csi" ->
            ParamFeed(buf, p.params) \cup
            (IF p.whole /\ buf.csi_params \notin p.params THEN {} ELSE p.csi)
      [] buf.parser_state = "CsiPrivate" -> ParamFeed(buf, p.params) \cup p.private
      [] buf.parser_state = "Osc" ->
            { b \in p.osc : b \in {BEL, ESC} \/ Len(buf.osc_buffer) < p.osc_max }

(***************************************************************************)
(* The buffer driven directly: write_byte and the resize of its grid.      *)
(***************************************************************************)
\* no session: the buffer stands alone
NoSession ==
    /\ term = "none"
    /\ pty_owners = {}
    /\ size = <<0, 0>>
    /\ pty_size = <<0, 0>>
    /\ buffer_lock = "none"
    /\ events = <<>>
    /\ reader_pc = "idle"
    /\ reader_buf = <<>>
    /\ reader_i = 0
    /\ resize_pc = "idle"
    /\ snap_pc = "idle"
    /\ snap_y = 0
    /\ snap_size = <<0, 0>>
    /\ snap_cells = <<>>
    /\ snapshot = to_render_state(TerminalBuffer_new(1, 1), <<0, 0>>)
    /\ snap_base = TerminalBuffer_new(1, 1)
    /\ delivered = <<>>
    /\ applied = 0
    /\ shadow = TerminalBuffer_new(1, 1)
    /\ removed_at = "none"
    /\ sessions = <<>>
    /\ terminals = {}
    /\ removed_ids = {}

Init ==
    /\ profile \in ProfileNames
    /\ \E c \in Profiles[profile].cols, r \in Profiles[profile].rows :
          buffer = TerminalBuffer_new(c, r)
    /\ panicked = FALSE
    /\ NoSession

\* the builds' outcomes of a call that ended with `fault`: FALSE, it
\* returned (a release build wraps an overflow); TRUE, it panicked (a debug
\* build on an overflow, every build on an index out of range)
PanicOutcomes(fault) ==
    CASE fault = "none" -> {FALSE}
      [] fault = "index" -> {TRUE}
      [] OTHER -> {FALSE, TRUE}

\* the buffer a write_byte call leaves
AfterWrite(buf, byte, panics) ==
    IF panics THEN write_byte_panicked(buf, byte) ELSE write_byte(buf, byte)

\* One write_byte call.
WriteByte(byte) ==
    /\ ~panicked
    /\ \E panics \in PanicOutcomes(write_byte(buffer, byte).fault) :
          /\ buffer' = AfterWrite(buffer, byte, panics)
          /\ panicked' = panics
    /\ UNCHANGED <<profile, sessVars>>

\* Terminal::resize, lines 851-867: the grid's part of a successful resize
Resize(cols, rows) ==
    /\ ~panicked
    /\ buffer' = resize_buffer(buffer, cols, rows)
    /\ UNCHANGED <<panicked, profile, sessVars>>

Next ==
    \/ \E byte \in Feed(Profiles[profile], buffer) : WriteByte(byte)
    \/ \E c \in Profiles[profile].cols, r \in Profiles[profile].rows : Resize(c, r)

Spec == Init /\ [][Next]_vars


(***************************************************************************)
(* Claims about the buffer (specification Spec).                           *)
(***************************************************************************)

\* C1: after every byte, in every parser state, the cursor is inside the
\* grid: 0 <= cursor_x < cols and 0 <= cursor_y < rows.
CursorInBounds ==
    /\ 0 <= buffer.cursor_x /\ buffer.cursor_x < buffer.cols
    /\ 0 <= buffer.cursor_y /\ buffer.cursor_y < buffer.rows

\* C1's case: a cursor movement with the parameter 99 has been executed and
\* the cursor sits, clamped, on the last cell of a grid with several rows
\* and columns.
CursorClampedAtLastCell ==
    /\ buffer.parser_state = "Ground"
    /\ buffer.csi_params = <<57, 57>>
    /\ buffer.cols > 1 /\ buffer.rows > 1
    /\ buffer.cursor_x = buffer.cols - 1
    /\ buffer.cursor_y = buffer.rows - 1

\* C2: the grid has exactly rows rows and every row exactly cols cells,
\* after any interleaving of write_byte and resize.
GridShape ==
    /\ Len(buffer.cells) = buffer.rows
    /\ \A y \in 1..Len(buffer.cells) : Len(buffer.cells[y]) = buffer.cols

\* C2's case: the grid was shrunk by a resize after a scroll region had been
\* set (scroll_top is beyond the grid), something has been printed, and an
\* insert/delete/scroll loop with the parameter 99 has just run.
ShrunkThenShifted ==
    /\ buffer.scroll_top >= buffer.rows
    /\ buffer.iters = 99
    /\ \E y \in 1..Len(buffer.cells) : \E x \in 1..Len(buffer.cells[y]) :
          buffer.cells[y][x].c = 120

\* C3: scroll_top <= scroll_bottom < rows in every reachable state.
ScrollRegionValid ==
    /\ buffer.scroll_top <= buffer.scroll_bottom
    /\ buffer.scroll_bottom < buffer.rows

\* C4: no write_byte step fails: no index out of range, no unsigned
\* subtraction below zero (and no addition past the word).
NeverCrash == buffer.fault = "none" /\ ~panicked

\* C5: the loop iterations of one write_byte call are bounded by the grid
\* size, whatever the numeric parameter.
BoundedIterations == ULe(buffer.iters, buffer.rows * buffer.cols)

\* the grid and the cursor after a resize to c x r, as C19 has them
NoReflow(old, new, c, r) ==
    /\ new.cols = c /\ new.rows = r
    /\ Len(new.cells) = r
    /\ \A y \in 0..(r - 1) :
         /\ Len(new.cells[y + 1]) = c
         /\ \A x \in 0..(c - 1) :
              new.cells[y + 1][x + 1] =
                IF x < UMin(old.cols, c) /\ y < UMin(old.rows, r)
                THEN old.cells[y + 1][x + 1]
                ELSE CellDefault
    /\ new.cursor_x = UMin(old.cursor_x, c - 1)
    /\ new.cursor_y = UMin(old.cursor_y, r - 1)

\* C19: a resize to c x r keeps character and attributes of every cell inside
\* both the old and the new grid, makes every other cell of the new grid a
\* default blank, drops what lies beyond, and clamps the cursor.
ResizeNoReflow ==
    [][\A c \in Profiles[profile].cols, r \in Profiles[profile].rows :
         Resize(c, r) => NoReflow(buffer, buffer', c, r)]_vars

\* C19's case: a 2 x 3 grid with a scroll region from row 2 and 'x' in its
\* first cell has been shrunk to one row: the 'x' is kept, the cursor stays
\* in column 1
ShrunkKeepingCell ==
    /\ buffer.scroll_top = 2
    /\ buffer.rows = 1 /\ buffer.cols = 2
    /\ buffer.cells[1][1].c = 120
    /\ buffer.cells[1][2] = CellDefault
    /\ buffer.cursor_x = 1
    /\ buffer.parser_state = "Ground"

\* C20 as stated: a resize to r rows makes scroll_bottom the smaller of its
\* old value and r - 1, and leaves scroll_top as it was.
ResizeClampsScrollBottom ==
    [][\A c \in Profiles[profile].cols, r \in Profiles[profile].rows :
         Resize(c, r) =>
           /\ buffer'.scroll_bottom = UMin(buffer.scroll_bottom, r - 1)
           /\ buffer'.scroll_top = buffer.scroll_top]_vars

\* C20: a resize to r rows makes scroll_bottom r - 1, whatever it was (a
\* bottom margin set by CSI r is lost even when it would still fit, and the
\* region grows with the grid), and leaves scroll_top as it was.
ResizeResetsScrollBottom ==
    [][\A c \in Profiles[profile].cols, r \in Profiles[profile].rows :
         Resize(c, r) =>
           /\ buffer'.scroll_bottom = r - 1
           /\ buffer'.scroll_top = buffer.scroll_top]_vars

\* C20's case: a scroll region with its top at row 2 had been set on three
\* rows, and a resize to two rows has put scroll_bottom at row 1, below
\* which scroll_top has stayed
ResizedUnderScrollTop ==
    /\ buffer.rows = 2
    /\ buffer.scroll_top = 2
    /\ buffer.scroll_bottom = 1

\* the bytes of ESC [ P m
SgrSequence(P) == <<ESC, 91>> \o P \o <<109>>

\* C18: from any state between sequences, feeding ESC [ P m twice in a row
\* leaves the same current attributes (fg, bg, flags) as feeding it once,
\* for every parameter list P, the empty one and "0" included.
SgrIdempotent ==
    buffer.parser_state = "Ground" =>
      \A P \in SgrParamStrings :
        LET once == FeedAll(buffer, SgrSequence(P))
            twice == FeedAll(once, SgrSequence(P))
        IN /\ twice.current_attrs = once.current_attrs
           /\ twice.parser_state = "Ground"

\* C18's case: ESC [ 7 ; 31 m has been executed on attributes that an earlier
\* sequence had given an RGB background and the blink flag
SgrOnStyledAttrs ==
    /\ buffer.parser_state = "Ground"
    /\ buffer.csi_params = <<55, 59, 51, 49>>
    /\ buffer.current_attrs.fg = ColorIndexed(1)
    /\ buffer.current_attrs.bg = ColorRgb(1, 2, 44)
    /\ buffer.current_attrs.flags = {"inverse", "blink"}

\* C16: once more than 4096 bytes have come in one OSC sequence the parser
\* has left the Osc state, and from Ground every byte is processed as if the
\* abandoned sequence had never been: ESC opens a new sequence, a printable
\* byte lands in the cell under the cursor with the current attributes and
\* (short of the last column) moves the cursor one cell on.
OscOverflowRecovery ==
    Len(buffer.osc_buffer) > OSC_LIMIT =>
      /\ buffer.parser_state # "Osc"
      /\ buffer.parser_state = "Ground" =>
           /\ \A byte \in 0..127 :
                write_byte(buffer, byte) =
                  [write_byte([buffer EXCEPT !.osc_buffer = <<>>], byte)
                     EXCEPT !.osc_buffer = buffer.osc_buffer]
           /\ write_byte(buffer, ESC) = [buffer EXCEPT !.parser_state = "Escape"]
           /\ buffer.cursor_x + 1 < buffer.cols =>
                write_byte(buffer, 121) =
                  [SetCell(buffer, buffer.cursor_x, buffer.cursor_y,
                           [c |-> 121, attrs |-> buffer.current_attrs])
                     EXCEPT !.cursor_x = @ + 1]

\* C16's case: 4097 bytes have overflowed the OSC sequence, a 'y' sent
\* afterwards is in the grid and an ESC sent after that has been taken
AfterOscOverflow ==
    /\ Len(buffer.osc_buffer) = OSC_LIMIT + 1
    /\ buffer.parser_state = "Escape"
    /\ buffer.cells[1][1].c = 121
    /\ buffer.cursor_x = 1


(***************************************************************************)
(* One session: Terminal, its reader task, and the callers of resize and   *)
(* get_render_state.  The two Mutexes are parking_lot's (no poisoning);    *)
(* an operation done entirely under the PTY lock is one step, the buffer   *)
(* lock is held across the steps of a critical section.                    *)
(***************************************************************************)
MaxBatch == 2        \* longest read() result (the code's buffer holds 4096)
MaxDelivered == 3    \* bytes the PTY delivers in a behaviour

READ_BUF_LEN == 4096

\* what the child writes in a session: 'x', LF, ESC
SessionBytes == {120, LF, ESC}

\* the TerminalSize values the host asks for
SessionSizes == {<<1, 1>>, <<MaxCols, MaxRows - 1>>}

Batches == UNION {[1..n -> SessionBytes] : n \in 1..MaxBatch}

NoBuffer == TerminalBuffer_new(1, 1)

InitSession ==
    /\ profile = "session"
    /\ buffer = NoBuffer
    /\ panicked = FALSE
    /\ NoSession

\* Terminal::spawn through TerminalManager::spawn: PtyHandle::spawn fails and
\* `?` returns, or the PTY, the buffer and the reader task are created and
\* the Terminal is inserted in the registry
Spawn(sz, ok) ==
    /\ term = "none"
    /\ IF ok
       THEN /\ term' = "registered"
            /\ pty_owners' = {"terminal", "reader_task"}
            /\ size' = sz
            /\ pty_size' = sz
            /\ buffer' = TerminalBuffer_new(sz[1], sz[2])
            /\ shadow' = TerminalBuffer_new(sz[1], sz[2])
            /\ reader_pc' = "clone_reader"
       ELSE /\ term' = "failed"
            /\ UNCHANGED <<pty_owners, size, pty_size, buffer, shadow, reader_pc>>
    /\ removed_at' = "none"
    /\ UNCHANGED <<mgrVars, panicked, profile, buffer_lock, events, reader_buf, reader_i,
                   resize_pc, snap_pc, snap_y, snap_size, snap_cells, snapshot, snap_base,
                   delivered, applied>>

\* the reader task ends: what the closure captured (pty_clone) is dropped
ReaderEnds(how) ==
    /\ reader_pc' = how
    /\ pty_owners' = pty_owners \ {"reader_task"}

\* pty_clone.lock().master.try_clone_reader()
ReaderCloneReader(ok) ==
    /\ reader_pc = "clone_reader"
    /\ IF ok THEN reader_pc' = "read" /\ UNCHANGED pty_owners
             ELSE ReaderEnds("exited_clone")
    /\ removed_at' = "none"
    /\ UNCHANGED <<mgrVars, bufVars, term, size, pty_size, buffer_lock, events, reader_buf,
                   reader_i, resize_pc, snap_pc, snap_y, snap_size, snap_cells, snapshot,
                   snap_base, delivered, applied, shadow>>

\* reader.read(&mut buf) returns Ok(n), n > 0
ReaderReadData(batch) ==
    /\ reader_pc = "read"
    /\ Len(batch) <= READ_BUF_LEN
    /\ Len(delivered) + Len(batch) <= MaxDelivered
    /\ delivered' = delivered \o batch
    /\ reader_buf' = batch
    /\ reader_i' = 0
    /\ reader_pc' = "lock"
    /\ removed_at' = "none"
    /\ UNCHANGED <<mgrVars, bufVars, term, pty_owners, size, pty_size, buffer_lock, events,
                   resize_pc, snap_pc, snap_y, snap_size, snap_cells, snapshot, snap_base,
                   applied, shadow>>

\* reader.read(&mut buf) returns Ok(0): Exited is sent, the loop breaks
ReaderReadEof ==
    /\ reader_pc = "read"
    /\ events' = Append(events, "Exited")
    /\ ReaderEnds("exited_eof")
    /\ removed_at' = "none"
    /\ UNCHANGED <<mgrVars, bufVars, term, size, pty_size, buffer_lock, reader_buf,
                   reader_i, resize_pc, snap_pc, snap_y, snap_size, snap_cells, snapshot,
                   snap_base, delivered, applied, shadow>>

\* reader.read(&mut buf) returns Err(e): logged, the loop breaks
ReaderReadError ==
    /\ reader_pc = "read"
    /\ ReaderEnds("exited_error")
    /\ removed_at' = "none"
    /\ UNCHANGED <<mgrVars, bufVars, term, size, pty_size, buffer_lock, events, reader_buf,
                   reader_i, resize_pc, snap_pc, snap_y, snap_size, snap_cells, snapshot,
                   snap_base, delivered, applied, shadow>>

\* a lock that does not wait for its holder
LockBuffer_unguarded(who) == buffer_lock' = who

\* Mutex::lock on the buffer: blocks until the lock is free
LockBuffer(who) ==
    /\ buffer_lock = "none"
    /\ buffer_lock' = who

\* let mut buffer = buffer_clone.lock()
ReaderLock ==
    /\ reader_pc = "lock"
    /\ LockBuffer("reader")
    /\ reader_pc' = "apply"
    /\ removed_at' = "none"
    /\ UNCHANGED <<mgrVars, bufVars, term, pty_owners, size, pty_size, events, reader_buf,
                   reader_i, resize_pc, snap_pc, snap_y, snap_size, snap_cells, snapshot,
                   snap_base, delivered, applied, shadow>>

\* the byte the k-th iteration (k from 0) of `for byte in &buf[..n]` takes
ReaderByte_reversed(buf, k) == buf[Len(buf) - k]

ReaderByte(buf, k) == buf[k + 1]

\* one iteration of the loop: buffer.write_byte(*byte).  A panic unwinds the
\* task: the guard is dropped and the task ends.
ReaderApplyByte ==
    /\ reader_pc = "apply"
    /\ reader_i < Len(reader_buf)
    /\ ~panicked
    /\ LET byte == ReaderByte(reader_buf, reader_i)
       IN \E panics \in PanicOutcomes(write_byte(buffer, byte).fault) :
            /\ buffer' = AfterWrite(buffer, byte, panics)
            /\ shadow' = AfterWrite(shadow, delivered[applied + 1], panics)
            /\ panicked' = panics
            /\ IF panics
               THEN /\ buffer_lock' = "none"
                    /\ ReaderEnds("exited_panic")
               ELSE UNCHANGED <<buffer_lock, reader_pc, pty_owners>>
    /\ reader_i' = reader_i + 1
    /\ applied' = applied + 1
    /\ removed_at' = "none"
    /\ UNCHANGED <<mgrVars, profile, term, size, pty_size, events, reader_buf, resize_pc,
                   snap_pc, snap_y, snap_size, snap_cells, snapshot, snap_base, delivered>>

\* a reader that leaves the block once the first byte is applied
ReaderUnlock_early ==
    /\ reader_pc = "apply"
    /\ reader_i >= 1
    /\ buffer_lock' = "none"
    /\ reader_pc' = "redraw"
    /\ removed_at' = "none"
    /\ UNCHANGED <<mgrVars, bufVars, term, pty_owners, size, pty_size, events, reader_buf,
                   reader_i, resize_pc, snap_pc, snap_y, snap_size, snap_cells, snapshot,
                   snap_base, delivered, applied, shadow>>

\* the end of the inner block: the guard is dropped
ReaderUnlock ==
    /\ reader_pc = "apply"
    /\ reader_i = Len(reader_buf)
    /\ buffer_lock' = "none"
    /\ reader_pc' = "redraw"
    /\ removed_at' = "none"
    /\ UNCHANGED <<mgrVars, bufVars, term, pty_owners, size, pty_size, events, reader_buf,
                   reader_i, resize_pc, snap_pc, snap_y, snap_size, snap_cells, snapshot,
                   snap_base, delivered, applied, shadow>>

\* event_tx_clone.send(TerminalEvent::Redraw(id_clone)), then loop
ReaderRedraw ==
    /\ reader_pc = "redraw"
    /\ events' = Append(events, "Redraw")
    /\ reader_pc' = "read"
    /\ removed_at' = "none"
    /\ UNCHANGED <<mgrVars, bufVars, term, pty_owners, size, pty_size, buffer_lock,
                   reader_buf, reader_i, resize_pc, snap_pc, snap_y, snap_size,
                   snap_cells, snapshot, snap_base, delivered, applied, shadow>>

\* the Terminal is there for a caller to use
Usable == term \in {"registered", "removed"}

\* Terminal::resize, entry: self.size = size
ResizeBegin(sz) ==
    /\ Usable
    /\ resize_pc = "idle"
    /\ size' = sz
    /\ resize_pc' = "pty"
    /\ removed_at' = "none"
    /\ UNCHANGED <<mgrVars, bufVars, term, pty_owners, pty_size, buffer_lock, events,
                   reader_pc, reader_buf, reader_i, snap_pc, snap_y, snap_size,
                   snap_cells, snapshot, snap_base, delivered, applied, shadow>>

\* a resize that returns once the PTY is resized, leaving the buffer alone
ResizePty_only(ok) ==
    /\ resize_pc = "pty"
    /\ resize_pc' = "idle"
    /\ pty_size' = IF ok THEN size ELSE pty_size
    /\ removed_at' = "none"
    /\ UNCHANGED <<mgrVars, bufVars, term, pty_owners, size, buffer_lock, events, reader_pc,
                   reader_buf, reader_i, snap_pc, snap_y, snap_size, snap_cells, snapshot,
                   snap_base, delivered, applied, shadow>>

\* a resize that takes the buffer lock while it still holds the PTY lock
ResizePty_keeping_lock(ok) ==
    /\ resize_pc = "pty"
    /\ buffer_lock = "none"
    /\ IF ok THEN pty_size' = size /\ resize_pc' = "mutate" /\ buffer_lock' = "resize"
             ELSE resize_pc' = "idle" /\ UNCHANGED <<pty_size, buffer_lock>>
    /\ removed_at' = "none"
    /\ UNCHANGED <<mgrVars, bufVars, term, pty_owners, size, events, reader_pc,
                   reader_buf, reader_i, snap_pc, snap_y, snap_size, snap_cells, snapshot,
                   snap_base, delivered, applied, shadow>>

\* self.pty.lock().resize(size)?: the PTY lock is taken, the PTY resized and
\* the lock released; on Err resize returns
ResizePty(ok) ==
    /\ resize_pc = "pty"
    /\ IF ok THEN pty_size' = size /\ resize_pc' = "lock"
             ELSE resize_pc' = "idle" /\ UNCHANGED pty_size
    /\ removed_at' = "none"
    /\ UNCHANGED <<mgrVars, bufVars, term, pty_owners, size, buffer_lock, events, reader_pc,
                   reader_buf, reader_i, snap_pc, snap_y, snap_size, snap_cells, snapshot,
                   snap_base, delivered, applied, shadow>>

\* let mut buffer = self.buffer.lock()
ResizeLock ==
    /\ resize_pc = "lock"
    /\ LockBuffer("resize")
    /\ resize_pc' = "mutate"
    /\ removed_at' = "none"
    /\ UNCHANGED <<mgrVars, bufVars, term, pty_owners, size, pty_size, events, reader_pc,
                   reader_buf, reader_i, snap_pc, snap_y, snap_size, snap_cells, snapshot,
                   snap_base, delivered, applied, shadow>>

\* the rest of resize: the grid, cols, rows, scroll_bottom and the cursor are
\* changed, the guard is dropped, Ok(()) is returned
ResizeMutate ==
    /\ resize_pc = "mutate"
    /\ buffer' = resize_buffer(buffer, size[1], size[2])
    /\ shadow' = resize_buffer(shadow, size[1], size[2])
    /\ buffer_lock' = "none"
    /\ resize_pc' = "idle"
    /\ removed_at' = "none"
    /\ UNCHANGED <<mgrVars, panicked, profile, term, pty_owners, size, pty_size, events,
                   reader_pc, reader_buf, reader_i, snap_pc, snap_y, snap_size,
                   snap_cells, snapshot, snap_base, delivered, applied>>

\* Terminal::get_render_state, entry: self.buffer.lock(), then self.size is
\* read for the call of to_render_state
SnapshotLock ==
    /\ Usable
    /\ snap_pc = "idle"
    /\ LockBuffer("snapshot")
    /\ snap_pc' = "walk"
    /\ snap_y' = 0
    /\ snap_size' = size
    /\ snap_cells' = <<>>
    /\ snap_base' = buffer
    /\ removed_at' = "none"
    /\ UNCHANGED <<mgrVars, snapshot, bufVars, term, pty_owners, size, pty_size, events, reader_pc,
                   reader_buf, reader_i, resize_pc, delivered, applied, shadow>>

\* one iteration of the outer loop of to_render_state
SnapshotWalk ==
    /\ snap_pc = "walk"
    /\ snap_y < Len(buffer.cells)
    /\ snap_cells' = snap_cells \o RenderRow(buffer, snap_y)
    /\ snap_y' = snap_y + 1
    /\ removed_at' = "none"
    /\ UNCHANGED <<mgrVars, snapshot, bufVars, term, pty_owners, size, pty_size, buffer_lock, events,
                   reader_pc, reader_buf, reader_i, resize_pc, snap_pc, snap_size,
                   snap_base, delivered, applied, shadow>>

\* the loop is over: the TerminalRenderState is built and returned, the guard
\* (a temporary of the return expression) is dropped
SnapshotReturn ==
    /\ snap_pc = "walk"
    /\ snap_y >= Len(buffer.cells)
    /\ snapshot' = [ cells |-> snap_cells, cursor |-> CursorState(buffer),
                     size |-> snap_size, selections |-> <<>> ]
    /\ buffer_lock' = "none"
    /\ snap_pc' = "returned"
    /\ removed_at' = "none"
    /\ UNCHANGED <<mgrVars, bufVars, term, pty_owners, size, pty_size, events, reader_pc,
                   reader_buf, reader_i, resize_pc, snap_y, snap_size, snap_cells,
                   snap_base, delivered, applied, shadow>>

\* the caller is done with the TerminalRenderState
SnapshotDropped ==
    /\ snap_pc = "returned"
    /\ snap_pc' = "idle"
    /\ snap_y' = 0
    /\ snap_size' = <<0, 0>>
    /\ snap_cells' = <<>>
    /\ snapshot' = to_render_state(NoBuffer, <<0, 0>>)
    /\ snap_base' = NoBuffer
    /\ removed_at' = "none"
    /\ UNCHANGED <<mgrVars, bufVars, term, pty_owners, size, pty_size, buffer_lock, events,
                   reader_pc, reader_buf, reader_i, resize_pc, delivered, applied,
                   shadow>>

\* a remove that waits for the reader task to be outside read() and for the
\* buffer lock to be free
Remove_waiting ==
    /\ term = "registered"
    /\ resize_pc = "idle"
    /\ snap_pc = "idle"
    /\ reader_pc # "read"
    /\ buffer_lock = "none"
    /\ term' = "removed"
    /\ removed_at' = reader_pc
    /\ UNCHANGED <<mgrVars, bufVars, pty_owners, size, pty_size, buffer_lock, events,
                   reader_pc, reader_buf, reader_i, resize_pc, snap_pc, snap_y,
                   snap_size, snap_cells, snapshot, snap_base, delivered, applied,
                   shadow>>

\* TerminalManager::remove: the Terminal is moved out to the caller.  The
\* registry is borrowed mutably, so no call on the Terminal is in progress.
Remove ==
    /\ term = "registered"
    /\ resize_pc = "idle"
    /\ snap_pc = "idle"
    /\ term' = "removed"
    /\ removed_at' = reader_pc
    /\ UNCHANGED <<mgrVars, bufVars, pty_owners, size, pty_size, buffer_lock, events,
                   reader_pc, reader_buf, reader_i, resize_pc, snap_pc, snap_y,
                   snap_size, snap_cells, snapshot, snap_base, delivered, applied, shadow>>

\* the removed Terminal is dropped: its Arcs of the PTY and the buffer go
DropTerminal ==
    /\ term = "removed"
    /\ resize_pc = "idle"
    /\ snap_pc = "idle"
    /\ term' = "dropped"
    /\ pty_owners' = pty_owners \ {"terminal"}
    /\ removed_at' = "none"
    /\ UNCHANGED <<mgrVars, bufVars, size, pty_size, buffer_lock, events, reader_pc,
                   reader_buf, reader_i, resize_pc, snap_pc, snap_y, snap_size,
                   snap_cells, snapshot, snap_base, delivered, applied, shadow>>

\* the steps of the reader task that wait for nothing but the buffer lock
ReaderStep ==
    \/ \E ok \in BOOLEAN : ReaderCloneReader(ok)
    \/ ReaderLock
    \/ ReaderApplyByte
    \/ ReaderUnlock
    \/ ReaderRedraw

\* what the PTY makes read() return
ReaderRead ==
    \/ \E batch \in Batches : ReaderReadData(batch)
    \/ ReaderReadEof
    \/ ReaderReadError

NextSession ==
    \/ \E sz \in SessionSizes, ok \in BOOLEAN : Spawn(sz, ok)
    \/ ReaderStep
    \/ ReaderRead
    \/ \E sz \in SessionSizes : ResizeBegin(sz)
    \/ \E ok \in BOOLEAN : ResizePty(ok)
    \/ ResizeLock
    \/ ResizeMutate
    \/ SnapshotLock
    \/ SnapshotWalk
    \/ SnapshotReturn
    \/ SnapshotDropped
    \/ Remove
    \/ DropTerminal

SessionSpec == InitSession /\ [][NextSession]_vars

\* the scheduler runs the reader task whenever it can take a step; what
\* read() returns, and when, is up to the child process
FairSessionSpec == SessionSpec /\ WF_vars(ReaderStep)


(***************************************************************************)
(* Claims about a session (specifications SessionSpec, FairSessionSpec).   *)
(***************************************************************************)
BufferDims == <<buffer.cols, buffer.rows>>

InReaderBatch == reader_pc = "apply"

InResizeMutation == resize_pc = "mutate"

InSnapshotWalk == snap_pc = "walk"

ReaderTerminated ==
    reader_pc \in {"exited_eof", "exited_error", "exited_clone", "exited_panic"}

\* the bytes read() has returned that write_byte has not processed yet
PendingBytes ==
    IF reader_pc \in {"lock", "apply"}
    THEN SubSeq(reader_buf, reader_i + 1, Len(reader_buf))
    ELSE <<>>

\* C6: at every moment the buffer is the parser run, from the initial state,
\* over the first `applied` bytes the PTY delivered, with the resizes applied
\* where they happened, which is never inside a batch; the delivered bytes
\* not yet applied are exactly the rest of the batch in hand, in order, so no
\* byte is skipped, duplicated or reordered.
Ordering ==
    /\ buffer = shadow
    /\ applied <= Len(delivered)
    /\ SubSeq(delivered, applied + 1, Len(delivered)) = PendingBytes
    /\ InResizeMutation => ~InReaderBatch

\* C6's case: the reader is in the middle of its second batch, whose two
\* bytes differ, while a resize to another size waits for the buffer lock
OrderingMidBatch ==
    /\ InReaderBatch
    /\ Len(reader_buf) = 2
    /\ reader_buf[1] # reader_buf[2]
    /\ reader_i = 1
    /\ applied = 2
    /\ resize_pc = "lock"
    /\ size # BufferDims

\* C7: a batch application, a resize's buffer mutation and a snapshot's grid
\* walk never overlap; the buffer lock is held only by an operation inside
\* its section, so it is free when each returns; a returned snapshot is the
\* rendering of the one buffer state it locked, with cols*rows cells, one for
\* each (x, y), and stays so when the buffer changes afterwards.
BufferMutualExclusion ==
    /\ ~(InReaderBatch /\ InResizeMutation)
    /\ ~(InReaderBatch /\ InSnapshotWalk)
    /\ ~(InResizeMutation /\ InSnapshotWalk)
    /\ buffer_lock = "reader" <=> InReaderBatch
    /\ buffer_lock = "resize" <=> InResizeMutation
    /\ buffer_lock = "snapshot" <=> InSnapshotWalk
    /\ snap_pc = "returned" =>
         /\ snapshot = to_render_state(snap_base, snap_size)
         /\ Len(snapshot.cells) = snap_base.cols * snap_base.rows
         /\ \A x \in 0..(snap_base.cols - 1), y \in 0..(snap_base.rows - 1) :
              Cardinality({k \in 1..Len(snapshot.cells) :
                  snapshot.cells[k].x = x /\ snapshot.cells[k].y = y}) = 1

\* C7's case: a snapshot of a grid of several cells, one of them written,
\* has been returned and the reader is inside a later batch that has
\* already changed the buffer
SnapshotOutlivesBuffer ==
    /\ snap_pc = "returned"
    /\ Len(snapshot.cells) > 1
    /\ \E k \in 1..Len(snapshot.cells) : snapshot.cells[k].c = 120
    /\ InReaderBatch
    /\ buffer.cells # snap_base.cells

\* C8 as stated: the reader never applies bytes while the PTY has a size the
\* buffer does not have yet.
ResizeAtomicUnderBufferLock == InReaderBatch => pty_size = BufferDims

\* C8: resize changes the PTY size first, under the PTY lock only, and the
\* buffer size afterwards, under the buffer lock; the PTY and the buffer
\* differ in size only while a resize is between those two steps, the PTY
\* then having the size asked for; the buffer's own change is one step under
\* the buffer lock, so the reader only ever sees a grid of rows x cols cells.
ResizePtyThenBuffer ==
    /\ term \in {"registered", "removed", "dropped"} /\ pty_size # BufferDims =>
         resize_pc \in {"lock", "mutate"} /\ pty_size = size
    /\ InResizeMutation => buffer_lock = "resize" /\ ~InReaderBatch
    /\ InReaderBatch => GridShape

\* C8's case: the reader is applying a batch, one byte done, while the PTY
\* has the new size, the buffer the old one and resize waits for the lock
ReaderBetweenResizeSteps ==
    /\ InReaderBatch
    /\ reader_i >= 1
    /\ buffer_lock = "reader"
    /\ resize_pc = "lock"
    /\ pty_size # BufferDims

\* C11: remove of a registered session, no call on it being in progress,
\* can always be taken, wherever the reader task is (blocked in read(),
\* holding the buffer lock), and taking it leaves the buffer lock, the
\* reader task and the buffer as they are.
RemoveNeverBlocks ==
    /\ [](term = "registered" /\ resize_pc = "idle" /\ snap_pc = "idle"
            => ENABLED Remove)
    /\ [][Remove => UNCHANGED <<buffer_lock, reader_pc, reader_i, buffer>>]_vars

\* C11's case: remove has just returned while the reader task was holding
\* the buffer lock in the middle of a batch
RemovedUnderReaderLock ==
    /\ term = "removed"
    /\ removed_at = "apply"
    /\ buffer_lock = "reader"
    /\ reader_i = 1 /\ Len(reader_buf) = 2

\* C9: when the reader loop has ended by EOF or by a read error, Exited is
\* the last event sent; Exited is sent at most once and no Redraw follows it.
ExitedOnTermination ==
    /\ reader_pc \in {"exited_eof", "exited_error"} =>
         Len(events) > 0 /\ events[Len(events)] = "Exited"
    /\ Cardinality({k \in 1..Len(events) : events[k] = "Exited"}) <= 1
    /\ \A j, k \in 1..Len(events) :
         j < k /\ events[j] = "Exited" => events[k] # "Redraw"

\* C10: once the session is removed and dropped, the PTY master comes to have
\* no owner and the reader loop to an end, whatever the child does.
TeardownLiveness ==
    (term = "dropped") ~> (pty_owners = {} /\ ReaderTerminated)


(***************************************************************************)
(* A fresh buffer fed a short string, then rendered (specification         *)
(* RoundTripSpec).                                                         *)
(***************************************************************************)
RoundTripCols == 3   \* widest grid
RoundTripRows == 2   \* tallest grid
MaxRoundTrip == 3    \* longest string fed

\* the ends of the printable range, a letter, and LF
RoundTripBytes == {32, 65, 126, LF}

InitRoundTrip ==
    /\ profile = "roundtrip"
    /\ \E c \in 1..RoundTripCols, r \in 1..RoundTripRows :
          buffer = TerminalBuffer_new(c, r)
    /\ panicked = FALSE
    /\ NoSession

\* buffer.write_byte(byte) on the buffer not yet rendered
RoundTripWrite(byte) ==
    /\ snap_pc = "idle"
    /\ Len(delivered) < MaxRoundTrip
    /\ buffer' = write_byte(buffer, byte)
    /\ delivered' = Append(delivered, byte)
    /\ UNCHANGED <<mgrVars, removed_at, panicked, profile, term, pty_owners, size, pty_size,
                   buffer_lock, events, reader_pc, reader_buf, reader_i,
                   resize_pc, snap_pc, snap_y, snap_size, snap_cells, snapshot,
                   snap_base, applied, shadow>>

\* buffer.to_render_state(size), size being the one the buffer was made with
RoundTripSnapshot ==
    /\ snap_pc = "idle"
    /\ snapshot' = to_render_state(buffer, <<buffer.cols, buffer.rows>>)
    /\ snap_pc' = "returned"
    /\ UNCHANGED <<mgrVars, removed_at, bufVars, term, pty_owners, size, pty_size, buffer_lock, events,
                   reader_pc, reader_buf, reader_i, resize_pc, snap_y, snap_size,
                   snap_cells, snap_base, delivered, applied, shadow>>

NextRoundTrip ==
    \/ \E byte \in RoundTripBytes : RoundTripWrite(byte)
    \/ RoundTripSnapshot

RoundTripSpec == InitRoundTrip /\ [][NextRoundTrip]_vars

\* C17: when a fresh buffer has been fed N < cols printable ASCII bytes and
\* then rendered, the snapshot has exactly one cell for each x of row 0,
\* holding the x-th byte fed for x < N and a space for x >= N, every one with
\* fg "#d4d4d4", bg "transparent" and no flag, and the cursor is at (N, 0).
RoundTrip ==
    (/\ snap_pc = "returned"
     /\ \A k \in 1..Len(delivered) : delivered[k] >= 32 /\ delivered[k] <= 126
     /\ Len(delivered) < buffer.cols)
    => LET N == Len(delivered)
           row0 == {k \in 1..Len(snapshot.cells) : snapshot.cells[k].y = 0}
       IN /\ \A x \in 0..(buffer.cols - 1) :
               \E k \in row0 :
                 /\ snapshot.cells[k].x = x
                 /\ \A j \in row0 : snapshot.cells[j].x = x => j = k
          /\ \A k \in row0 :
               LET cell == snapshot.cells[k]
               IN /\ cell.x < buffer.cols
                  /\ cell.c = IF cell.x < N THEN delivered[cell.x + 1] ELSE 32
                  /\ cell.fg = <<"#", "d", "4", "d", "4", "d", "4">>
                  /\ cell.bg = <<"t", "r", "a", "n", "s", "p", "a", "r", "e", "n", "t">>
                  /\ cell.flags = {}
          /\ snapshot.cursor.x = N
          /\ snapshot.cursor.y = 0

\* C17's case: "A~" fed to a fresh grid of three columns, then rendered
RoundTripOfTwo ==
    /\ snap_pc = "returned"
    /\ delivered = <<65, 126>>
    /\ buffer.cols = 3
    /\ Len(snapshot.cells) = 3 * buffer.rows


(***************************************************************************)
(* TerminalManager with several sessions (specification ManagerSpec).      *)
(* Each call, and each turn of a reader loop, is one step: the sections    *)
(* under the buffer lock do not interleave.                                *)
(***************************************************************************)
MaxSessions == 2   \* sessions spawned in a behaviour
MaxEvents == 3     \* Redraw events sent in a behaviour
MaxWrites == 2     \* write calls on one session

ManagerSizes == {<<1, 1>>, <<2, 1>>}

\* what a child prints: 'x'
ManagerBytes == {120}

\* what the host writes: "a", "b"
WriteData == {<<97>>, <<98>>}

\* an id no spawn has returned
UnknownId == 0

\* a behaviour is about the sessions' screens (reads and resizes) or about
\* their input (writes)
ManagerProfiles ==
    [ mgr_screen |-> [sizes |-> ManagerSizes, screen |-> TRUE, input |-> FALSE],
      mgr_input  |-> [sizes |-> {<<1, 1>>}, screen |-> FALSE, input |-> TRUE] ]

InitManager ==
    /\ profile \in DOMAIN ManagerProfiles
    /\ buffer = NoBuffer
    /\ panicked = FALSE
    /\ NoSession

\* what Terminal::spawn creates: the buffer, the size, the PTY with its
\* child, its writer not yet taken and the bytes the child has received,
\* the reader task; writes is the record of the write calls made
NewSession(sz) ==
    [ buffer |-> TerminalBuffer_new(sz[1], sz[2]), size |-> sz,
      child |-> "alive", reader |-> "running", writer_taken |-> FALSE,
      input |-> <<>>, writes |-> <<>> ]

\* everything of ManagerSpec's steps that is not the manager's
notMgrVars ==
    <<bufVars, term, pty_owners, size, pty_size, buffer_lock, reader_pc,
      reader_buf, reader_i, resize_pc, snap_pc, snap_y, snap_size, snap_cells,
      snapshot, snap_base, delivered, applied, shadow, removed_at>>

\* TerminalManager::spawn: on Err of Terminal::spawn `?` returns, else the
\* Terminal goes into the map under its new id
MgrSpawn(sz, ok) ==
    /\ Len(sessions) < MaxSessions
    /\ IF ok
       THEN /\ sessions' = Append(sessions, NewSession(sz))
            /\ terminals' = terminals \cup {Len(sessions) + 1}
       ELSE UNCHANGED <<sessions, terminals>>
    /\ UNCHANGED <<notMgrVars, events, removed_ids>>

\* one turn of session id's reader loop with Ok(n), n > 0: the batch goes
\* through write_byte under the buffer lock, then Redraw(id) is sent
MgrRead(id, batch) ==
    /\ id \in DOMAIN sessions
    /\ sessions[id].reader = "running"
    /\ Len(events) < MaxEvents
    /\ sessions' = [sessions EXCEPT ![id].buffer = FeedAll(@, batch)]
    /\ events' = Append(events, <<"Redraw", id>>)
    /\ UNCHANGED <<notMgrVars, terminals, removed_ids>>

\* the child of session id exits
MgrChildExit(id) ==
    /\ id \in DOMAIN sessions
    /\ sessions[id].child = "alive"
    /\ sessions' = [sessions EXCEPT ![id].child = "dead"]
    /\ UNCHANGED <<notMgrVars, terminals, removed_ids, events>>

\* a reader loop that unregisters its session when it ends
MgrReaderEnd_unregistering(id, eof) ==
    /\ id \in DOMAIN sessions
    /\ sessions[id].reader = "running"
    /\ sessions[id].child = "dead"
    /\ sessions' = [sessions EXCEPT
                      ![id].reader = IF eof THEN "exited_eof" ELSE "exited_error"]
    /\ events' = IF eof THEN Append(events, <<"Exited", id>>) ELSE events
    /\ terminals' = terminals \ {id}
    /\ UNCHANGED <<notMgrVars, removed_ids>>

\* the last turn of session id's reader loop: Ok(0) sends Exited(id, 0) and
\* breaks, Err(e) logs and breaks
MgrReaderEnd(id, eof) ==
    /\ id \in DOMAIN sessions
    /\ sessions[id].reader = "running"
    /\ sessions[id].child = "dead"
    /\ sessions' = [sessions EXCEPT
                      ![id].reader = IF eof THEN "exited_eof" ELSE "exited_error"]
    /\ events' = IF eof THEN Append(events, <<"Exited", id>>) ELSE events
    /\ UNCHANGED <<notMgrVars, terminals, removed_ids>>

\* MasterPty::take_writer gives the writer once
take_writer_ok(s) == ~s.writer_taken

\* Terminal::write on the session the manager finds under id: take_writer
\* (Err is returned as Error::Pty), then write_all (Err is returned by `?`),
\* which a dead child makes fail or not
WriteResult(s, os_ok) ==
    IF ~take_writer_ok(s) THEN "err_pty"
    ELSE IF s.child = "alive" \/ os_ok THEN "ok"
    ELSE "err_io"

MgrWrite(id, data, os_ok) ==
    /\ id \in terminals
    /\ Len(sessions[id].writes) < MaxWrites
    /\ LET s == sessions[id]
           result == WriteResult(s, os_ok)
       IN sessions' = [sessions EXCEPT
            ![id].writer_taken = TRUE,
            ![id].input = IF result = "ok" /\ s.child = "alive"
                          THEN @ \o data ELSE @,
            ![id].writes = Append(@, [data |-> data, child |-> s.child,
                                      result |-> result])]
    /\ UNCHANGED <<notMgrVars, terminals, removed_ids, events>>

\* a resize that reaches every session's buffer
MgrResize_all(id, sz) ==
    /\ id \in terminals
    /\ sessions' = [o \in DOMAIN sessions |->
                      [sessions[o] EXCEPT
                         !.size = IF o = id THEN sz ELSE @,
                         !.buffer = resize_buffer(@, sz[1], sz[2])]]
    /\ UNCHANGED <<notMgrVars, terminals, removed_ids, events>>

\* Terminal::resize on the session the manager finds under id
MgrResize(id, sz) ==
    /\ id \in terminals
    /\ sessions' = [sessions EXCEPT
                      ![id].size = sz,
                      ![id].buffer = resize_buffer(@, sz[1], sz[2])]
    /\ UNCHANGED <<notMgrVars, terminals, removed_ids, events>>

\* TerminalManager::remove(id): HashMap::remove, Some or None
MgrRemove(id) ==
    /\ id \in DOMAIN sessions \cup {UnknownId}
    /\ terminals' = terminals \ {id}
    /\ removed_ids' = removed_ids \cup {id}
    /\ UNCHANGED <<notMgrVars, sessions, events>>

\* TerminalManager::list
list == terminals

\* TerminalManager::get: the session under id, if any
get(id) == IF id \in terminals THEN <<sessions[id]>> ELSE <<>>

NextManager ==
    LET p == ManagerProfiles[profile] IN
    \/ \E sz \in p.sizes, ok \in BOOLEAN : MgrSpawn(sz, ok)
    \/ /\ p.screen
       /\ \E id \in 1..MaxSessions, byte \in ManagerBytes : MgrRead(id, <<byte>>)
    \/ \E id \in 1..MaxSessions : MgrChildExit(id)
    \/ \E id \in 1..MaxSessions, eof \in BOOLEAN : MgrReaderEnd(id, eof)
    \/ /\ p.input
       /\ \E id \in 1..MaxSessions, data \in WriteData, os_ok \in BOOLEAN :
            MgrWrite(id, data, os_ok)
    \/ /\ p.screen
       /\ \E id \in 1..MaxSessions, sz \in p.sizes : MgrResize(id, sz)
    \/ \E id \in 0..MaxSessions : MgrRemove(id)

ManagerSpec == InitManager /\ [][NextManager]_vars


(***************************************************************************)
(* Claims about the manager's sessions                                     *)
(***************************************************************************)
RECURSIVE WritesData(_)
\* the bytes of a session's write calls, in call order
WritesData(ws) ==
    IF ws = <<>> THEN <<>> ELSE Head(ws).data \o WritesData(Tail(ws))

\* C12: write can be called any number of times on a live session: the first
\* call and every later call succeed and deliver their bytes to the PTY, in
\* call order (what the child has received is the concatenation of what the
\* calls were given).
EveryWriteDelivered ==
    \A id \in DOMAIN sessions :
        (\A k \in DOMAIN sessions[id].writes : sessions[id].writes[k].child = "alive")
            => /\ \A k \in DOMAIN sessions[id].writes :
                     sessions[id].writes[k].result = "ok"
               /\ sessions[id].input = WritesData(sessions[id].writes)

\* C13: a write to a session whose child has died and which is still
\* registered returns no error to its caller.
DeadWriteNotSynchronous ==
    \A id \in DOMAIN sessions :
        \A k \in DOMAIN sessions[id].writes :
            sessions[id].writes[k].child = "dead"
                => sessions[id].writes[k].result = "ok"

\* C14: the registry (what list returns and get finds) holds exactly the ids
\* that successful spawns returned and that were not passed to remove; a
\* failed spawn adds nothing, the end of a reader loop removes nothing, and
\* remove of an unknown id changes nothing.
RegistryInvariant ==
    /\ [](/\ list = DOMAIN sessions \ removed_ids
          /\ \A id \in 0..MaxSessions :
                get(id) = IF id \in DOMAIN sessions \ removed_ids
                          THEN <<sessions[id]>> ELSE <<>>)
    /\ [][/\ \A sz \in ManagerSizes :
                MgrSpawn(sz, FALSE) => UNCHANGED <<terminals, sessions, events>>
          /\ \A id \in 1..MaxSessions, eof \in BOOLEAN :
                MgrReaderEnd(id, eof) =>
                    /\ list' = list
                    /\ (get(id)' # <<>>) <=> (get(id) # <<>>)
          /\ MgrRemove(UnknownId) => UNCHANGED <<terminals, sessions, events>>]_vars

\* a session whose reader loop has ended is still registered, after another
\* session and an unknown id were removed
DeadSessionAddressable ==
    /\ profile = "mgr_screen"
    /\ Len(sessions) = 2
    /\ sessions[1].reader = "exited_error"
    /\ sessions[2].reader = "exited_eof"
    /\ removed_ids = {UnknownId, 2}
    /\ list = {1}
    /\ get(1) = <<sessions[1]>>

\* the steps of session id that the isolation claim is about
SessionStep(id) ==
    \/ \E byte \in ManagerBytes : MgrRead(id, <<byte>>)
    \/ \E sz \in ManagerSizes : MgrResize(id, sz)
    \/ \E eof \in BOOLEAN : MgrReaderEnd(id, eof)
    \/ MgrRemove(id)

\* C15: a read from session id's PTY, a resize or a remove of session id
\* leave every other session's buffer (cursor included), size and registry
\* entry unchanged, and the events such a step sends on the shared channel
\* carry id.
SessionIsolation ==
    [][\A id \in 1..MaxSessions :
          SessionStep(id) =>
              /\ \A o \in DOMAIN sessions \ {id} :
                    /\ sessions'[o] = sessions[o]
                    /\ (o \in terminals') <=> (o \in terminals)
              /\ \/ events' = events
                 \/ \E kind \in {"Redraw", "Exited"} :
                       events' = Append(events, <<kind, id>>)]_vars

\* session 1 was written to, resized and removed while session 2 is as spawned
OtherSessionUntouched ==
    /\ Len(sessions) = 2
    /\ sessions[1].size = <<2, 1>>
    /\ sessions[1].buffer.cells[1][1].c = 120
    /\ sessions[1].buffer.cursor_x = 1
    /\ sessions[2] = NewSession(<<1, 1>>)
    /\ events = << <<"Redraw", 1>> >>
    /\ terminals = {2}
    /\ removed_ids = {1}

(***************************************************************************)
(* Claims about scrolling and line operations (specification Spec).        *)
(***************************************************************************)
\* the rows of old outside [scroll_top, scroll_bottom] are in new what and
\* where they were, and new has as many rows as old
OutsideRegionKept(old, new) ==
    /\ Len(new.cells) = Len(old.cells)
    /\ \A y \in 0..(Len(old.cells) - 1) :
          (y < old.scroll_top \/ y > old.scroll_bottom)
              => new.cells[y + 1] = old.cells[y + 1]

\* a newline in Ground, or IND, NEL or RI after ESC
ScrollingByte ==
    \/ buffer.parser_state = "Ground" /\ WriteByte(LF)
    \/ buffer.parser_state = "Escape" /\ (WriteByte(68) \/ WriteByte(69) \/ WriteByte(77))

NewlineOnBottomMargin ==
    /\ buffer.cursor_y = buffer.scroll_bottom
    /\ buffer.scroll_top <= buffer.scroll_bottom
    /\ \/ buffer.parser_state = "Ground" /\ WriteByte(LF)
       \/ buffer.parser_state = "Escape" /\ WriteByte(68)

\* C28: a newline (or IND) with the cursor on row scroll_bottom removes row
\* scroll_top, moves every other row of the region up by one, leaves row
\* scroll_bottom blank and keeps cursor_y, for every region with
\* scroll_top <= scroll_bottom, a one-row region and a 1-row buffer included.
NewlineScrollsAtBottomMargin ==
    [][NewlineOnBottomMargin =>
          /\ buffer'.cursor_y = buffer.cursor_y
          /\ buffer'.cells[buffer.scroll_bottom + 1] = BlankRow(buffer.cols)
          /\ \A y \in buffer.scroll_top..(buffer.scroll_bottom - 1) :
                buffer'.cells[y + 1] = buffer.cells[y + 2]]_vars

\* a newline in Ground or an IND after ESC
NewlineOrInd ==
    \/ buffer.parser_state = "Ground" /\ WriteByte(LF)
    \/ buffer.parser_state = "Escape" /\ WriteByte(68)

\* an RI after ESC
ReverseIndex == buffer.parser_state = "Escape" /\ WriteByte(77)

\* C29: newline and IND change cells only with the cursor on row
\* scroll_bottom, RI only with the cursor on row scroll_top; on any other
\* row, one below scroll_bottom or above scroll_top included, every cell
\* stays and the cursor moves one row down (resp. up), clamped to the grid;
\* a newline never changes cursor_x.
ScrollOnlyAtMargin ==
    [][/\ NewlineOrInd /\ buffer.cursor_y # buffer.scroll_bottom
            => /\ buffer'.cells = buffer.cells
               /\ buffer'.cursor_y = UMin(buffer.cursor_y + 1, buffer.rows - 1)
       /\ ReverseIndex /\ buffer.cursor_y # buffer.scroll_top
            => /\ buffer'.cells = buffer.cells
               /\ buffer'.cursor_y = saturating_sub(buffer.cursor_y, 1)
       /\ buffer.parser_state = "Ground" /\ WriteByte(LF)
            => buffer'.cursor_x = buffer.cursor_x]_vars

\* CSI n L or CSI n M: the final byte of an insert-lines or delete-lines
\* sequence
InsertOrDeleteLines ==
    buffer.parser_state = "Csi" /\ (WriteByte(76) \/ WriteByte(77))

\* C30: CSI n L and CSI n M change no row outside
\* [scroll_top, scroll_bottom], change nothing when the cursor is outside
\* the region, and leave the cursor where it is.
LinesStayInsideRegion ==
    [][InsertOrDeleteLines =>
          /\ OutsideRegionKept(buffer, buffer')
          /\ (buffer.cursor_y < buffer.scroll_top \/ buffer.cursor_y > buffer.scroll_bottom)
                => buffer'.cells = buffer.cells
          /\ buffer'.cursor_x = buffer.cursor_x
          /\ buffer'.cursor_y = buffer.cursor_y]_vars

(***************************************************************************)
(* Claims about unsupported sequences (specification Spec).                *)
(***************************************************************************)
\* ESC ( B, ESC [ 2 SP q, ESC [ > c, ESC [ 5 z, ESC x
AnomalySequences ==
    { <<ESC, 40, 66>>, <<ESC, 91, 50, 32, 113>>, <<ESC, 91, 62, 99>>,
      <<ESC, 91, 53, 122>>, <<ESC, 120>> }

\* C26: an unsupported escape sequence, fed whole in Ground, raises no
\* error, leaves the parser in Ground after its last byte and leaves every
\* cell, the cursor and the current attributes as they were before its ESC.
AnomaliesDiscarded ==
    buffer.parser_state = "Ground" /\ ~panicked =>
        \A seq \in AnomalySequences :
            LET after == FeedAll(buffer, seq)
            IN /\ after.fault = "none"
               /\ after.parser_state = "Ground"
               /\ after.cells = buffer.cells
               /\ after.cursor_x = buffer.cursor_x
               /\ after.cursor_y = buffer.cursor_y
               /\ after.current_attrs = buffer.current_attrs

(***************************************************************************)
(* Claims about extended colours.                                          *)
(***************************************************************************)
\* "38;5", "38;2;10;20", "38;7", "38:5:196", "48;5", "48;2;10;20"
MalformedColourParams ==
    { <<51, 56, 59, 53>>, <<51, 56, 59, 50, 59, 49, 48, 59, 50, 48>>,
      <<51, 56, 59, 55>>, <<51, 56, 58, 53, 58, 49, 57, 54>>,
      <<52, 56, 59, 53>>, <<52, 56, 59, 50, 59, 49, 48, 59, 50, 48>> }

\* C23: an SGR sequence whose 38/48 selector lacks its sub-parameters, has
\* an unknown sub-selector or uses the colon form leaves the current
\* attributes exactly as they were before the sequence.
MalformedColourIgnored ==
    buffer.parser_state = "Ground" /\ ~panicked =>
        \A P \in MalformedColourParams :
            FeedAll(buffer, SgrSequence(P)).current_attrs = buffer.current_attrs

(***************************************************************************)
(* SGR sequences, printed cells and their colours in the render state      *)
(* (specification ColourSpec): the host's writes are whole SGR sequences   *)
(* and single characters, then the buffer is rendered.                     *)
(***************************************************************************)
ColourCols == 2       \* the width of the one-row grid
MaxColourWrites == 4  \* writes before the buffer is rendered

\* the components an RGB colour is made of
RgbLevels == {0, 128, 255}

RECURSIVE Digits(_)
\* the decimal digits of n, as the child formats a parameter
Digits(n) == IF n < 10 THEN <<48 + n>> ELSE Append(Digits(n \div 10), 48 + (n % 10))

RECURSIVE JoinSemi(_)
\* the parameters of a sequence, separated by ;
JoinSemi(ps) ==
    IF Len(ps) = 1 THEN Digits(ps[1])
    ELSE Digits(ps[1]) \o <<59>> \o JoinSemi(Tail(ps))

\* the SGR sequences with a well-formed extended colour: 38/48 ; 5 ; n and
\* 38/48 ; 2 ; r ; g ; b
ExtendedColourParams ==
    { <<sel, 5, n>> : sel \in {38, 48}, n \in 0..255 } \cup
    { <<sel, 2, rgb[1], rgb[2], rgb[3]>> :
        sel \in {38, 48}, rgb \in RgbLevels \X RgbLevels \X RgbLevels }

\* ESC[31m, ESC[0m, ESC[1;44m
PlainSgrParams == { <<31>>, <<0>>, <<1, 44>> }

\* a write is an SGR sequence with its parameters, or the text "x"
ColourWrites ==
    [kind : {"sgr"}, params : ExtendedColourParams \cup PlainSgrParams]
        \cup {[kind |-> "text", params |-> <<120>>]}

\* the bytes of a write
WriteBytes(w) ==
    IF w.kind = "sgr" THEN SgrSequence(JoinSemi(w.params)) ELSE w.params

IsExtended(w) == w.kind = "sgr" /\ w.params \in ExtendedColourParams

InitColour ==
    /\ profile = "colour"
    /\ buffer = TerminalBuffer_new(ColourCols, 1)
    /\ panicked = FALSE
    /\ NoSession

\* the bytes of one write go through write_byte; delivered is the writes
\* made so far, shadow the buffer before the last of them.  A behaviour
\* has one extended colour at most.
ColourWrite(w) ==
    /\ snap_pc = "idle"
    /\ Len(delivered) < MaxColourWrites
    /\ IsExtended(w) => \A k \in 1..Len(delivered) : ~IsExtended(delivered[k])
    /\ buffer' = FeedAll(buffer, WriteBytes(w))
    /\ delivered' = Append(delivered, w)
    /\ shadow' = buffer
    /\ UNCHANGED <<mgrVars, removed_at, panicked, profile, term, pty_owners, size, pty_size,
                   buffer_lock, events, reader_pc, reader_buf, reader_i,
                   resize_pc, snap_pc, snap_y, snap_size, snap_cells, snapshot,
                   snap_base, applied>>

\* buffer.to_render_state(size)
ColourSnapshot ==
    /\ snap_pc = "idle"
    /\ snapshot' = to_render_state(buffer, <<buffer.cols, buffer.rows>>)
    /\ snap_pc' = "returned"
    /\ UNCHANGED <<mgrVars, removed_at, bufVars, term, pty_owners, size, pty_size, buffer_lock, events,
                   reader_pc, reader_buf, reader_i, resize_pc, snap_y, snap_size,
                   snap_cells, snap_base, delivered, applied, shadow>>

NextColour ==
    \/ \E w \in ColourWrites : ColourWrite(w)
    \/ ColourSnapshot

ColourSpec == InitColour /\ [][NextColour]_vars

\* the write made last, and the one before it
LastWrite == delivered[Len(delivered)]

PreviousWrite == delivered[Len(delivered) - 1]

\* the colour an extended colour sequence names
NamedColour(w) ==
    IF w.params[2] = 5 THEN ColorIndexed(w.params[3])
    ELSE ColorRgb(w.params[3], w.params[4], w.params[5])

\* the cell of the snapshot at column x of row 0
SnapshotCell(x) ==
    CHOOSE rc \in {snapshot.cells[k] : k \in DOMAIN snapshot.cells} :
        rc.x = x /\ rc.y = 0

\* C22: ESC[38;5;n m sets the current fg to Indexed(n) and
\* ESC[38;2;r;g;b m to RGB(r,g,b), 48 likewise the bg; the other channel,
\* the flags and the grid are unchanged (no sub-parameter is read as an SGR
\* code), and the cell printed next resolves in the render state to the
\* palette, cube or ramp colour of n, or to #rrggbb.
ExtendedColourSet ==
    /\ (delivered # <<>> /\ IsExtended(LastWrite)) =>
          /\ buffer.parser_state = "Ground"
          /\ buffer.cells = shadow.cells
          /\ buffer.current_attrs =
                IF LastWrite.params[1] = 38
                THEN [shadow.current_attrs EXCEPT !.fg = NamedColour(LastWrite)]
                ELSE [shadow.current_attrs EXCEPT !.bg = NamedColour(LastWrite)]
    /\ (/\ snap_pc = "returned"
        /\ Len(delivered) > 1
        /\ LastWrite.kind = "text"
        /\ IsExtended(PreviousWrite)) =>
          LET p == PreviousWrite.params
              css == IF p[2] = 5 THEN index_to_css(p[3])
                     ELSE CssRgb(p[3], p[4], p[5])
              rc == SnapshotCell(shadow.cursor_x)
          IN /\ rc.c = 120
             /\ Len(css) = 7
             /\ IF p[1] = 38 THEN rc.fg = css ELSE rc.bg = css
             /\ rc.flags = shadow.current_attrs.flags

\* C22's case: after ESC[1;44m, ESC[38;5;196m and "x" the rendered cell is
\* bold, #ff0000 on #0000ee
Printed196OnBlue ==
    /\ snap_pc = "returned"
    /\ delivered = << [kind |-> "sgr", params |-> <<1, 44>>],
                      [kind |-> "sgr", params |-> <<38, 5, 196>>],
                      [kind |-> "text", params |-> <<120>>] >>
    /\ SnapshotCell(0).fg = <<"#", "f", "f", "0", "0", "0", "0">>
    /\ SnapshotCell(0).bg = <<"#", "0", "0", "0", "0", "e", "e">>
    /\ SnapshotCell(0).flags = {"bold"}

\* the 16 fixed palette entries, as the strings they are
PaletteStrings ==
    << <<"#", "0", "0", "0", "0", "0", "0">>,
       <<"#", "c", "d", "0", "0", "0", "0">>,
       <<"#", "0", "0", "c", "d", "0", "0">>,
       <<"#", "c", "d", "c", "d", "0", "0">>,
       <<"#", "0", "0", "0", "0", "e", "e">>,
       <<"#", "c", "d", "0", "0", "c", "d">>,
       <<"#", "0", "0", "c", "d", "c", "d">>,
       <<"#", "e", "5", "e", "5", "e", "5">>,
       <<"#", "7", "f", "7", "f", "7", "f">>,
       <<"#", "f", "f", "0", "0", "0", "0">>,
       <<"#", "0", "0", "f", "f", "0", "0">>,
       <<"#", "f", "f", "f", "f", "0", "0">>,
       <<"#", "5", "c", "5", "c", "f", "f">>,
       <<"#", "f", "f", "0", "0", "f", "f">>,
       <<"#", "0", "0", "f", "f", "f", "f">>,
       <<"#", "f", "f", "f", "f", "f", "f">> >>

\* "#rrggbb" for components in 0..255, digit by digit
HexString(r, g, b) ==
    LET d == <<"0", "1", "2", "3", "4", "5", "6", "7",
               "8", "9", "a", "b", "c", "d", "e", "f">>
    IN <<"#", d[(r \div 16) + 1], d[(r % 16) + 1], d[(g \div 16) + 1],
         d[(g % 16) + 1], d[(b \div 16) + 1], d[(b % 16) + 1]>>

\* level 0 -> 0, level n -> 55 + 40 n
LevelValue(l) == IF l = 0 THEN 0 ELSE 55 + 40 * l

\* the string of index i: palette, cube, gray ramp
IndexString(i) ==
    IF i < 16 THEN PaletteStrings[i + 1]
    ELSE IF i < 232
    THEN HexString(LevelValue(((i - 16) \div 36) % 6),
                   LevelValue(((i - 16) \div 6) % 6),
                   LevelValue((i - 16) % 6))
    ELSE HexString(8 + 10 * (i - 232), 8 + 10 * (i - 232), 8 + 10 * (i - 232))

\* the string of a colour, given the string of Default
ColourString(color, default) ==
    IF color.tag = "Default" THEN default
    ELSE IF color.tag = "Indexed" THEN IndexString(color.v[1])
    ELSE HexString(color.v[1], color.v[2], color.v[3])

\* C24: in the render state every cell's fg and bg are the strings of its
\* colours: Default is "#d4d4d4" as fg and "transparent" as bg; index i is a
\* 7-character #rrggbb, the palette entry for 0..15 (1 is #cd0000), the cube
\* colour with levels ((i-16)/36)%6, ((i-16)/6)%6, (i-16)%6 for 16..231
\* (level 0 -> 0, level n -> 55+40n), gray 8+10(i-232) for 232..255, every
\* component within 0..255; an indexed or RGB colour gives the same string
\* as fg and as bg.
ColourResolution ==
    snap_pc = "returned" =>
        \A k \in DOMAIN snapshot.cells :
            LET rc == snapshot.cells[k]
                attrs == buffer.cells[rc.y + 1][rc.x + 1].attrs
            IN /\ rc.fg = ColourString(attrs.fg, <<"#", "d", "4", "d", "4", "d", "4">>)
               /\ rc.bg = ColourString(attrs.bg,
                     <<"t", "r", "a", "n", "s", "p", "a", "r", "e", "n", "t">>)
               /\ attrs.fg.tag # "Default" =>
                     Len(rc.fg) = 7 /\ to_bg_css(attrs.fg) = rc.fg
               /\ attrs.bg.tag # "Default" =>
                     Len(rc.bg) = 7 /\ to_fg_css(attrs.bg) = rc.bg
               /\ attrs.fg.tag = "Indexed" /\ attrs.fg.v[1] >= 232 =>
                     8 + 10 * (attrs.fg.v[1] - 232) <= 255
               /\ attrs.fg = ColorIndexed(1) =>
                     rc.fg = <<"#", "c", "d", "0", "0", "0", "0">>

\* C24's case: a cell printed after ESC[48;5;255m is rendered with the
\* default fg on the last gray of the ramp, #eeeeee
PrintedOnLastGray ==
    /\ snap_pc = "returned"
    /\ delivered = << [kind |-> "sgr", params |-> <<48, 5, 255>>],
                      [kind |-> "text", params |-> <<120>>] >>
    /\ SnapshotCell(0).bg = <<"#", "e", "e", "e", "e", "e", "e">>
    /\ SnapshotCell(0).fg = <<"#", "d", "4", "d", "4", "d", "4">>
    /\ SnapshotCell(1).bg = <<"t", "r", "a", "n", "s", "p", "a", "r", "e", "n", "t">>

\* the write k is text
IsText(k) == delivered[k].kind = "text"

\* the column where the text of write k went: one cell per text write, the
\* cursor wrapping at the end of the one row
ColumnOf(k) == Cardinality({j \in 1..(k - 1) : IsText(j)}) % ColourCols

\* the parameters of the last SGR sequence before write k, <<>> if none
SgrBefore(k) ==
    LET before == {j \in 1..(k - 1) : ~IsText(j)}
    IN IF before = {} THEN <<>>
       ELSE delivered[CHOOSE j \in before : \A i \in before : i <= j].params

\* C27: a printed cell has the attributes current when it was printed, and
\* an SGR sequence changes no cell of the grid: in the render state a cell
\* printed after ESC[31m has fg #cd0000 and one printed after a following
\* ESC[0m the default fg, whatever was sent after the cell was printed.
PrintCapturesAttrs ==
    /\ (delivered # <<>> /\ LastWrite.kind = "sgr") => buffer.cells = shadow.cells
    /\ (delivered # <<>> /\ LastWrite.kind = "text") =>
          \A x \in 0..(ColourCols - 1) :
              buffer.cells[1][x + 1] =
                  IF x = shadow.cursor_x
                  THEN [c |-> 120, attrs |-> shadow.current_attrs]
                  ELSE shadow.cells[1][x + 1]
    /\ snap_pc = "returned" =>
          \A k \in 1..Len(delivered) :
              (/\ IsText(k)
               /\ \A j \in (k + 1)..Len(delivered) :
                     IsText(j) => ColumnOf(j) # ColumnOf(k)) =>
                 /\ SgrBefore(k) = <<31>> =>
                       SnapshotCell(ColumnOf(k)).fg = <<"#", "c", "d", "0", "0", "0", "0">>
                 /\ SgrBefore(k) = <<0>> =>
                       SnapshotCell(ColumnOf(k)).fg = <<"#", "d", "4", "d", "4", "d", "4">>

\* C27's case: ESC[31m x ESC[0m x, rendered: a red x, then a default x
RedThenDefault ==
    /\ snap_pc = "returned"
    /\ delivered = << [kind |-> "sgr", params |-> <<31>>],
                      [kind |-> "text", params |-> <<120>>],
                      [kind |-> "sgr", params |-> <<0>>],
                      [kind |-> "text", params |-> <<120>>] >>
    /\ SnapshotCell(0).c = 120
    /\ SnapshotCell(0).fg = <<"#", "c", "d", "0", "0", "0", "0">>
    /\ SnapshotCell(1).c = 120
    /\ SnapshotCell(1).fg = <<"#", "d", "4", "d", "4", "d", "4">>

(***************************************************************************)
(* Claims about the events of a session (specification SessionSpec).       *)
(***************************************************************************)
\* the reader has a batch in hand: read, and its Redraw not yet sent
BatchInHand == reader_pc \in {"lock", "apply", "redraw"}

CsiSequence(P, final) == <<ESC, 91>> \o P \o <<final>>

\* "", "0", "1", "2", usize::MAX - 1 and usize::MAX
MoveParamStrings ==
    { <<>>, <<48>>, <<49>>, <<50>>,
      UsizeMaxHead \o <<55, 48, 57, 53, 53, 49, 54, 49, 52>>,
      UsizeMaxHead \o <<55, 48, 57, 53, 53, 49, 54, 49, 53>> }

\* the count of a movement: a missing or 0 parameter is 1 (a negative
\* number stands for a word above the signed range)
MoveCount(P) == IF ParseUsize(P) = 0 THEN 1 ELSE ParseUsize(P)

\* max(cur - n, 0), min(cur + n, last) and min(n - 1, last) in unbounded
\* arithmetic
MovedBack(cur, n) == IF n < 0 \/ n > cur THEN 0 ELSE cur - n

MovedForward(cur, n, last) == IF n < 0 \/ cur + n > last THEN last ELSE cur + n

MovedTo(n, last) == IF n < 0 \/ n - 1 > last THEN last ELSE n - 1

\* C31: CSI A/B/C/D/E/F/G/H/d with any parameter that fits the word, values
\* near the word maximum included, moves the cursor to max(cursor - n, 0),
\* min(cursor + n, last) or min(n - 1, last), a missing or 0 parameter
\* counting as 1, and the addition never overflows.
CursorMovementClamped ==
    buffer.parser_state = "Ground" /\ ~panicked =>
        \A P \in MoveParamStrings :
            LET n == MoveCount(P)
                x == buffer.cursor_x
                y == buffer.cursor_y
                lastx == buffer.cols - 1
                lasty == buffer.rows - 1
                after(final) == FeedAll(buffer, CsiSequence(P, final))
                at(final, cx, cy) ==
                    /\ after(final).fault = "none"
                    /\ after(final).cursor_x = cx
                    /\ after(final).cursor_y = cy
            IN /\ at(65, x, MovedBack(y, n))
               /\ at(66, x, MovedForward(y, n, lasty))
               /\ at(67, MovedForward(x, n, lastx), y)
               /\ at(68, MovedBack(x, n), y)
               /\ at(69, 0, MovedForward(y, n, lasty))
               /\ at(70, 0, MovedBack(y, n))
               /\ at(71, MovedTo(n, lastx), y)
               /\ at(72, 0, MovedTo(n, lasty))
               /\ at(100, x, MovedTo(n, lasty))

(***************************************************************************)
(* Claims about the full reset (specification Spec)                        *)
(***************************************************************************)
\* the buffer without the accumulators of finished sequences, which the
\* next ESC [ and ESC ] clear before they are read
Observable(buf) ==
    [buf EXCEPT !.csi_params = <<>>, !.osc_buffer = <<>>,
                !.fault = "none", !.iters = 0]

\* x, LF x, ESC 8 x, ESC [ H, ESC [ m x, ESC [ 2 B x, ESC [ ? h, ESC ] BEL x,
\* ESC D, ESC M, ESC [ L, ESC [ S
ResetProbes ==
    { <<>>, <<120>>, <<LF, 120>>, <<ESC, 56, 120>>, <<ESC, 91, 72>>,
      <<ESC, 91, 109, 120>>, <<ESC, 91, 50, 66, 120>>, <<ESC, 91, 63, 104>>,
      <<ESC, 93, BEL, 120>>, <<ESC, 68>>, <<ESC, 77>>, <<ESC, 91, 76>>,
      <<ESC, 91, 83>> }

\* the byte 'c' in the Escape state
ResetStep == buffer.parser_state = "Escape" /\ WriteByte(99)

OscAccumulatorBounded == Len(buffer.osc_buffer) <= OSC_LIMIT

(***************************************************************************)
(* A CSI sequence that never ends (specification CsiSpec): after ESC [ the *)
(* host sends '1' without end, or '?' and then ';' without end.            *)
(***************************************************************************)
\* the parameter bytes fed to the one sequence: one more than the only
\* length limit of the parser, that of the OSC accumulator
MaxCsiRun == OSC_LIMIT + 1

CsiRunFeed(buf) ==
    CASE buf.parser_state = "Ground" -> {ESC}
      [] buf.parser_state = "Escape" -> {91}
      [] buf.parser_state = "Csi" ->
            (IF buf.csi_params = <<>> THEN {63} ELSE {}) \cup
            (IF Len(buf.csi_params) < MaxCsiRun THEN {49} ELSE {})
      [] buf.parser_state = "CsiPrivate" ->
            IF Len(buf.csi_params) < MaxCsiRun THEN {59} ELSE {}
      [] OTHER -> {}

InitCsi ==
    /\ profile = "csi"
    /\ buffer = TerminalBuffer_new(1, 1)
    /\ panicked = FALSE
    /\ NoSession

NextCsi == \E byte \in CsiRunFeed(buffer) : WriteByte(byte)

CsiSpec == InitCsi /\ [][NextCsi]_vars

\* C34: the CSI parameter accumulator csi_params is bounded: its length
\* never exceeds a fixed constant K, however many parameter bytes follow
\* ESC [ in the Csi or the CsiPrivate state (K taken as 4096, the limit of
\* the OSC accumulator and the only length limit the parser has).
CsiAccumulatorBounded == Len(buffer.csi_params) <= OSC_LIMIT

(***************************************************************************)
(* Claims about the erase operations (specification Spec)                  *)
(***************************************************************************)
\* the sequences CSI J and CSI K with the modes "", 0, 1, 2 (and 3 for J)
\* and CSI X with the counts "", 1, 2: the final byte, the parameter bytes
\* and the mode or count they stand for
EraseCases ==
    { <<74, <<>>, 0>>, <<74, <<48>>, 0>>, <<74, <<49>>, 1>>, <<74, <<50>>, 2>>,
      <<74, <<51>>, 3>>,
      <<75, <<>>, 0>>, <<75, <<48>>, 0>>, <<75, <<49>>, 1>>, <<75, <<50>>, 2>>,
      <<88, <<>>, 1>>, <<88, <<49>>, 1>>, <<88, <<50>>, 2>> }

\* cell (x, y) is in the range the sequence is to blank, the cursor being
\* at (cx, cy)
InErasedRange(final, k, x, y, cx, cy) ==
    CASE final = 74 ->
            CASE k = 0 -> y > cy \/ (y = cy /\ x >= cx)
              [] k = 1 -> y < cy \/ (y = cy /\ x <= cx)
              [] OTHER -> TRUE
      [] final = 75 ->
            y = cy /\ CASE k = 0 -> x >= cx
                        [] k = 1 -> x <= cx
                        [] OTHER -> TRUE
      [] OTHER -> y = cy /\ x >= cx /\ x < cx + k

\* C35: CSI J, CSI K and CSI n X blank exactly the cells of their range
\* (mode 0 from the cursor cell to the end, mode 1 from the start to the
\* cursor cell, mode 2 and J 3 the whole line or screen, X n cells from the
\* cursor) and leave the other cells, the cursor position, the current
\* attributes and the scroll region unchanged.
EraseOnlyBlanksCells ==
    buffer.parser_state = "Ground" /\ ~panicked =>
        \A c \in EraseCases :
            LET after == FeedAll(buffer, CsiSequence(c[2], c[1]))
            IN /\ after.fault = "none"
               /\ after.cursor_x = buffer.cursor_x
               /\ after.cursor_y = buffer.cursor_y
               /\ after.current_attrs = buffer.current_attrs
               /\ after.scroll_top = buffer.scroll_top
               /\ after.scroll_bottom = buffer.scroll_bottom
               /\ \A y \in 0..(buffer.rows - 1), x \in 0..(buffer.cols - 1) :
                     after.cells[y + 1][x + 1] =
                         IF InErasedRange(c[1], c[3], x, y,
                                          buffer.cursor_x, buffer.cursor_y)
                         THEN CellDefault
                         ELSE buffer.cells[y + 1][x + 1]

(***************************************************************************)
(* Claims about CSI S and CSI T (specification Spec)                       *)
(***************************************************************************)
\* the rows of `cells` moved up by n (n < 0: down by -n), blank rows
\* entering
ShiftedRows(cells, cols, n) ==
    [y \in 1..Len(cells) |->
        IF y + n >= 1 /\ y + n <= Len(cells) THEN cells[y + n] ELSE BlankRow(cols)]

\* the parameters "", 1 and 2 with the count they stand for
ScrollCounts == { <<<<>>, 1>>, <<<<49>>, 1>>, <<<<50>>, 2>> }

\* C36: CSI n S and CSI n T move all rows 0..rows-1 up or down by n lines,
\* whatever scroll region is set, with blank lines entering; the cursor
\* position is unchanged and the resulting grid is the same wherever the
\* cursor is.
PanScrollsWholeBuffer ==
    buffer.parser_state = "Ground" /\ ~panicked =>
        \A c \in ScrollCounts :
            LET up == FeedAll(buffer, CsiSequence(c[1], 83))
                down == FeedAll(buffer, CsiSequence(c[1], 84))
            IN /\ up.fault = "none" /\ down.fault = "none"
               /\ up.cells = ShiftedRows(buffer.cells, buffer.cols, c[2])
               /\ down.cells = ShiftedRows(buffer.cells, buffer.cols, 0 - c[2])
               /\ up.cursor_x = buffer.cursor_x /\ up.cursor_y = buffer.cursor_y
               /\ down.cursor_x = buffer.cursor_x /\ down.cursor_y = buffer.cursor_y
               /\ \A x \in 0..(buffer.cols - 1), y \in 0..(buffer.rows - 1) :
                     LET moved == [buffer EXCEPT !.cursor_x = x, !.cursor_y = y]
                     IN /\ FeedAll(moved, CsiSequence(c[1], 83)).cells = up.cells
                        /\ FeedAll(moved, CsiSequence(c[1], 84)).cells = down.cells

(***************************************************************************)
(* The reader's batches (specification SplitSpec): the PTY hands a byte    *)
(* stream to the reader task in batches of any length, and the task writes *)
(* each batch to the buffer byte by byte.                                  *)
(***************************************************************************)
MaxSplit == 5         \* the bytes of the stream
MaxSplitBatch == 3    \* the bytes of one batch

SplitCols == 2        \* the width of the one-row grid

\* ESC [ 3 m x LF
SplitBytes == {ESC, 91, 51, 109, 120, LF}

SplitBatches == UNION {[1..n -> SplitBytes] : n \in 1..MaxSplitBatch}

InitSplit ==
    /\ profile = "split"
    /\ buffer = TerminalBuffer_new(SplitCols, 1)
    /\ panicked = FALSE
    /\ NoSession

\* a reader task that starts every batch with the parser in Ground
SplitRead_fresh_parser(batch) ==
    /\ Len(delivered) + Len(batch) <= MaxSplit
    /\ buffer' = FeedAll([buffer EXCEPT !.parser_state = "Ground"], batch)
    /\ delivered' = delivered \o batch
    /\ reader_buf' = batch
    /\ UNCHANGED <<mgrVars, removed_at, panicked, profile, term, pty_owners, size,
                   pty_size, buffer_lock, events, reader_pc, reader_i, resize_pc,
                   snap_pc, snap_y, snap_size, snap_cells, snapshot, snap_base,
                   applied, shadow>>

\* one read of the reader task and its `for byte in &buf[..n]` loop
SplitRead(batch) ==
    /\ Len(delivered) + Len(batch) <= MaxSplit
    /\ buffer' = FeedAll(buffer, batch)
    /\ delivered' = delivered \o batch
    /\ reader_buf' = batch
    /\ UNCHANGED <<mgrVars, removed_at, panicked, profile, term, pty_owners, size,
                   pty_size, buffer_lock, events, reader_pc, reader_i, resize_pc,
                   snap_pc, snap_y, snap_size, snap_cells, snapshot, snap_base,
                   applied, shadow>>

NextSplit == \E batch \in SplitBatches : SplitRead(batch)

SplitSpec == InitSplit /\ [][NextSplit]_vars

\* C37: the buffer after a byte sequence is the buffer the whole sequence
\* gives as one batch, however the sequence was split into batches, a split
\* inside an escape sequence included: grid, cursor, attributes and parser
\* state are the same.
BatchSplitIndependence ==
    buffer = FeedAll(TerminalBuffer_new(SplitCols, 1), delivered)

\* C37's case: ESC [ 3 m x came with the sequence cut after the '3', and the
\* x is in the grid in italics
SplitInsideSequence ==
    /\ delivered = <<ESC, 91, 51, 109, 120>>
    /\ reader_buf = <<109, 120>>
    /\ buffer.cells[1][1].c = 120
    /\ "italic" \in buffer.cells[1][1].attrs.flags

(***************************************************************************)
(* Claims about the two locks of a session (specification SessionSpec).    *)
(* The PTY lock is held inside single steps only: try_clone_reader in the  *)
(* reader task and the PTY resize in Terminal::resize.                     *)
(***************************************************************************)
\* a step made under the PTY lock, and the holder of the buffer lock that
\* would make it a step under both locks
ReaderPtyStep == \E ok \in BOOLEAN : ReaderCloneReader(ok)

ResizePtyStep == \E ok \in BOOLEAN : ResizePty(ok)

\* the holder of the buffer lock can go on to release it, and with the lock
\* free every operation that waits for a lock can take it
LockHolderRuns ==
    /\ buffer_lock = "reader" => ENABLED (ReaderApplyByte \/ ReaderUnlock)
    /\ buffer_lock = "resize" => ENABLED ResizeMutate
    /\ buffer_lock = "snapshot" => ENABLED (SnapshotWalk \/ SnapshotReturn)
    /\ buffer_lock = "none" =>
          /\ reader_pc = "lock" => ENABLED ReaderLock
          /\ resize_pc = "lock" => ENABLED ResizeLock
    /\ reader_pc = "clone_reader" => ENABLED ReaderPtyStep
    /\ resize_pc = "pty" => ENABLED ResizePtyStep

\* C38: no operation holds the PTY lock and the buffer lock at the same
\* time: a step under the PTY lock is made by an operation that does not
\* hold the buffer lock and does not take it in that step; so no
\* interleaving of the reader task, resize and the snapshot deadlocks: who
\* holds a lock can always go on to release it.
LockDiscipline ==
    /\ []LockHolderRuns
    /\ [][/\ ReaderPtyStep => buffer_lock # "reader" /\ buffer_lock' # "reader"
          /\ ResizePtyStep => buffer_lock # "resize" /\ buffer_lock' # "resize"]_vars

\* C38's case: the resize has resized the PTY, released the PTY lock and
\* waits for the buffer lock, which the reader task holds in mid-batch
ResizeWaitsForReader ==
    /\ resize_pc = "lock"
    /\ buffer_lock = "reader"
    /\ reader_pc = "apply"
    /\ reader_i = 1
    /\ pty_size = size

(***************************************************************************)
(* Claims about a resize that fails (specification SessionSpec)            *)
(***************************************************************************)
\* C39: a resize whose PTY resize fails changes nothing: with no resize in
\* progress the recorded size of the session is the size of its buffer (a
\* failed resize keeps the previous one), and the size field of every
\* snapshot is the size of the grid it was built from:
\* cells.len() = size.cols * size.rows.
FailedResizeChangesNothing ==
    /\ Usable /\ resize_pc = "idle" => size = <<buffer.cols, buffer.rows>>
    /\ snap_pc = "returned" =>
          Len(snapshot.cells) = snapshot.size[1] * snapshot.size[2]

(***************************************************************************)
(* Claims about complete OSC sequences (specification Spec)                *)
(***************************************************************************)
\* no payload, "0;x"
OscPayloads == { <<>>, <<48, 59, 120>> }

\* BEL, and ST: ESC \
OscTerminators == { <<BEL>>, <<ESC, 92>> }

\* C40: ESC ] with a payload of at most 4096 bytes, ended by BEL or by ST
\* (ESC \), leaves every cell, the cursor and the current attributes
\* unchanged and the parser in Ground: no byte of the sequence, terminator
\* included, is printed.
OscLeavesScreenUntouched ==
    buffer.parser_state = "Ground" /\ ~panicked =>
        \A payload \in OscPayloads, terminator \in OscTerminators :
            LET after == FeedAll(buffer, <<ESC, 93>> \o payload \o terminator)
            IN /\ after.fault = "none"
               /\ after.parser_state = "Ground"
               /\ after.cells = buffer.cells
               /\ after.cursor_x = buffer.cursor_x
               /\ after.cursor_y = buffer.cursor_y
               /\ after.current_attrs = buffer.current_attrs
====
